---- MODULE Spec2Model ----
(***************************************************************************)
(* Gross-profit dashboard: the metrics engine process_data of              *)
(* src/data_processor.py as a state machine.                               *)
(*                                                                         *)
(* Text is a sequence of one-character strings.  Characters outside ASCII  *)
(* are written as tokens: "u76EE" "u6A19" are the two characters of the    *)
(* target keyword of line 96, "uFF0C" is the full-width comma of line 116. *)
(* A float is an exact rational [nan, n, d] in lowest terms (d > 0), or    *)
(* NaN; rounding of binary floating point is not modelled.                 *)
(* A Timestamp is the integer (year * 12 + month - 1) * 32 + day, so that  *)
(* Timestamps compare as the integers do.                                  *)
(***************************************************************************)
EXTENDS Integers, Sequences, FiniteSets, TLC

\* ------------------------------------------------------------------ bounds
MaxTargetRows == 2
MaxActualRows == 2
MaxRuns == 2
MaxScriptRuns == 4
MaxMonthsRunning == 2

\* ------------------------------------------------------- generic helpers
Range(s) == {s[i] : i \in 1..Len(s)}

Abs(n) == IF n < 0 THEN -n ELSE n

RECURSIVE Gcd(_, _)
Gcd(a, b) == IF b = 0 THEN a ELSE Gcd(b, a % b)

RECURSIVE Flatten(_)
Flatten(ss) == IF ss = <<>> THEN <<>> ELSE Head(ss) \o Flatten(Tail(ss))

RECURSIVE SumSeq(_)
SumSeq(s) == IF s = <<>> THEN 0 ELSE Head(s) + SumSeq(Tail(s))

\* Sequences over S of length at most n.
SeqUpTo(S, n) == UNION {[1..k -> S] : k \in 0..n}

\* --------------------------------------------------------------- floats
NaNF == [nan |-> TRUE, n |-> 0, d |-> 1]

Rat(n, d) ==
    LET g == Gcd(Abs(n), Abs(d))
        sgn == IF d < 0 THEN -1 ELSE 1
    IN  [nan |-> FALSE, n |-> sgn * (n \div g), d |-> sgn * (d \div g)]

IntF(n) == [nan |-> FALSE, n |-> n, d |-> 1]

\* pd.notna / pd.isna on a float
NotNaF(x) == ~x.nan

FAdd(x, y) == IF x.nan \/ y.nan THEN NaNF ELSE Rat(x.n * y.d + y.n * x.d, x.d * y.d)
FSub(x, y) == IF x.nan \/ y.nan THEN NaNF ELSE Rat(x.n * y.d - y.n * x.d, x.d * y.d)
\* every comparison with NaN is false
FLt(x, y) == ~x.nan /\ ~y.nan /\ x.n * y.d < y.n * x.d
FGt(x, y) == FLt(y, x)
FGe(x, y) == ~x.nan /\ ~y.nan /\ x.n * y.d >= y.n * x.d

RECURSIVE FSum(_)
FSum(s) == IF s = <<>> THEN IntF(0) ELSE FAdd(Head(s), FSum(Tail(s)))

\* Series.mean() of a non-empty series of non-NaN floats
FMean(s) == LET t == FSum(s) IN Rat(t.n, t.d * Len(s))

FMul(x, y) == IF x.nan \/ y.nan THEN NaNF ELSE Rat(x.n * y.n, x.d * y.d)
\* x / y of two floats, y not 0
FDiv(x, y) == IF x.nan \/ y.nan THEN NaNF ELSE Rat(x.n * y.d, x.d * y.n)

Pow10(k) == IF k = 0 THEN 1 ELSE IF k = 1 THEN 10 ELSE 100

\* round(x, k): to k decimals, a value half-way between two going to the
\* even one
Round(x, k) ==
    IF x.nan THEN NaNF
    ELSE LET q == x.n * Pow10(k)
             lo == q \div x.d
             rem == q - lo * x.d
             up == \/ 2 * rem > x.d
                   \/ 2 * rem = x.d /\ lo % 2 = 1
         IN  Rat(IF up THEN lo + 1 ELSE lo, Pow10(k))

\* ---------------------------------------------------------------- cells
\* A cell of a table: missing (NaN), a number, or text.
NaN == [k |-> "nan", v |-> 0, s |-> <<>>]
Num(n) == [k |-> "num", v |-> n, s |-> <<>>]
Str(t) == [k |-> "str", v |-> 0, s |-> t]

\* pd.notna on a cell
NotNa(c) == c.k # "nan"

Digits == <<"0", "1", "2", "3", "4", "5", "6", "7", "8", "9">>

IsDigit(c) == c \in Range(Digits)

DigitVal(c) == (CHOOSE i \in 1..10 : Digits[i] = c) - 1

RECURSIVE NatToStr(_)
NatToStr(n) == IF n < 10 THEN <<Digits[n + 1]>>
               ELSE NatToStr(n \div 10) \o <<Digits[(n % 10) + 1]>>

\* str(n) of an integer
IntToStr(n) == IF n < 0 THEN <<"-">> \o NatToStr(-n) ELSE NatToStr(n)

RECURSIVE DigitsToNat(_, _)
DigitsToNat(t, acc) == IF t = <<>> THEN acc
                       ELSE DigitsToNat(Tail(t), acc * 10 + DigitVal(Head(t)))

\* str.replace(',', '').replace(fullwidth comma, '')
StripSeparators(t) == SelectSeq(t, LAMBDA c : c \notin {",", "uFF0C"})

\* The numeric literals of the model: an optional minus sign and one or
\* more decimal digits.  Anything else fails to parse.
IsNumeral(t) ==
    LET body == IF t # <<>> /\ Head(t) = "-" THEN Tail(t) ELSE t
    IN  body # <<>> /\ \A i \in 1..Len(body) : IsDigit(body[i])

NumeralVal(t) == IF Head(t) = "-" THEN -DigitsToNat(Tail(t), 0) ELSE DigitsToNat(t, 0)


\* float(text) of line 160, on text already stripped of separators
ParsesAsFloat(t) == IsNumeral(t)

\* astype(str) on a cell of an object column
AsTypeStr(c) == IF c.k = "str" THEN c.s
                ELSE IF c.k = "num" THEN IntToStr(c.v)
                ELSE <<"n", "a", "n">>

\* pd.to_numeric(..., errors='coerce') on one text
ToNumeric(t) == IF IsNumeral(t) THEN Num(NumeralVal(t)) ELSE NaN

\* ----------------------------------------------------------------- text
UpperCase == <<"A", "B", "C", "D", "E", "F", "G", "H", "I", "J", "K", "L", "M",
               "N", "O", "P", "Q", "R", "S", "T", "U", "V", "W", "X", "Y", "Z">>
LowerCase == <<"a", "b", "c", "d", "e", "f", "g", "h", "i", "j", "k", "l", "m",
               "n", "o", "p", "q", "r", "s", "t", "u", "v", "w", "x", "y", "z">>

LowerChar(c) == IF c \in Range(UpperCase)
                THEN LowerCase[CHOOSE i \in 1..26 : UpperCase[i] = c]
                ELSE c

\* str.lower()
Lower(t) == [i \in 1..Len(t) |-> LowerChar(t[i])]

\* pat in t
Contains(t, pat) ==
    \E i \in 0..(Len(t) - Len(pat)) : SubSeq(t, i + 1, i + Len(pat)) = pat

\* Code-point order of the characters department names are made of.
CharRank(c) == IF c \in Range(UpperCase) THEN CHOOSE i \in 1..26 : UpperCase[i] = c
               ELSE IF c \in Range(LowerCase) THEN 26 + (CHOOSE i \in 1..26 : LowerCase[i] = c)
               ELSE 0

RECURSIVE TextLt(_, _)
TextLt(a, b) == IF b = <<>> THEN FALSE
                ELSE IF a = <<>> THEN TRUE
                ELSE IF CharRank(Head(a)) # CharRank(Head(b))
                     THEN CharRank(Head(a)) < CharRank(Head(b))
                     ELSE TextLt(Tail(a), Tail(b))

\* ------------------------------------------------------------- sorting
\* The permutation that sorts 1..n by the strict order lt (a function on
\* pairs of indices), elements that lt does not order keeping their
\* relative order.
StableArgsort(n, lt) ==
    LET pos(i) == 1 + Cardinality({j \in 1..n : lt[j, i] \/ (~lt[i, j] /\ j < i)})
    IN  [p \in 1..n |-> CHOOSE i \in 1..n : pos(i) = p]

\* As StableArgsort, elements that lt does not order coming out reversed.
ReversingArgsort(n, lt) ==
    LET pos(i) == 1 + Cardinality({j \in 1..n : lt[j, i] \/ (~lt[i, j] /\ j > i)})
    IN  [p \in 1..n |-> CHOOSE i \in 1..n : pos(i) = p]

\* ------------------------------------------------------------ timestamps
Timestamp(year, month, day) == (year * 12 + (month - 1)) * 32 + day
YearMonth(ts) == ts \div 32
\* ts - relativedelta(months=k), going back one month too few
MinusMonths_OneFewer(ts, k) == ts - (k - 1) * 32

\* ts - relativedelta(months=k), for a day every month has
MinusMonths(ts, k) == ts - k * 32

\* ---------------------------------------------------------------- tables
\* A column header: a label (text) or a Timestamp.
Label(t) == [kind |-> "label", text |-> t, ts |-> 0]
Period(ts) == [kind |-> "ts", text |-> <<>>, ts |-> ts]

\* What the loader hands over: None, or a DataFrame.
None == [present |-> FALSE, columns |-> <<>>, rows |-> <<>>]
DataFrame(cols, rows) == [present |-> TRUE, columns |-> cols, rows |-> rows]

\* df[col], the cells of column c
Column(df, c) == [i \in 1..Len(df.rows) |-> df.rows[i][c]]

\* ---------------------------------------------------------------- state
VARIABLES
    target_loaded,   \* the target table as the loader produced it
    target_df,       \* the target DataFrame object the caller holds
    actual_df,       \* the actual DataFrame object the caller holds
    quicksort_ties,  \* how this numpy build's quicksort leaves equal values
    clock,           \* datetime.now(): year and month
    default_today,   \* the default of process_data's `today`, bound at import
    runs,            \* calls of process_data, or runs of the script, so far
    outcome,         \* of the last call: "none", "returned" or "raised"
    called_today,    \* the `today` of the last call
    summary_df,      \* the last call's first return value
    chart_df,        \* the last call's second return value
    chart_src,       \* for each chart_df record, the target row it came from
    prev,            \* today, outcome and return values of the call before
    target_file,     \* the file in the target uploader
    actual_file,     \* the file in the actual uploader
    loads,           \* which of the two files load_data has been called on
    session_state,   \* st.session_state: the two tables and the preview
    widget_period_type,    \* the period type selected in the export interface
    widget_analysis_date,  \* the as-of date picked in the export interface
    export_call,     \* the last call of export_metrics_csv
    screen           \* what the last run of the script showed

vars == <<target_loaded, target_df, actual_df, quicksort_ties, clock, default_today,
          runs,
          outcome, called_today, summary_df, chart_df, chart_src, prev,
          target_file, actual_file, loads,
          session_state, widget_period_type, widget_analysis_date, export_call,
          screen>>

appvars == <<session_state, widget_period_type, widget_analysis_date, export_call,
             screen>>

\* element-wise ==, which no NaN satisfies
CellEq(a, b) == NotNa(a) /\ NotNa(b) /\ a = b

TwoDigits(n) == IF n < 10 THEN <<"0">> \o NatToStr(n) ELSE NatToStr(n)

\* str(col) of a header
HeaderStr(h) ==
    IF h.kind = "label" THEN h.text
    ELSE NatToStr(YearMonth(h.ts) \div 12) \o <<"-">>
         \o TwoDigits((YearMonth(h.ts) % 12) + 1) \o <<"-">>
         \o TwoDigits(h.ts % 32) \o <<" ", "0", "0", ":", "0", "0", ":", "0", "0">>

\* ------------------------------------------------------------ load_data
\* What an uploader holds: None, or a file: the extension of its name,
\* whether pandas can read it, and the header row and the rows that
\* pd.read_csv / pd.read_excel make of it.
NoFile == [present |-> FALSE, extension |-> <<>>, readable |-> FALSE,
           columns |-> <<>>, rows |-> <<>>]
UploadedFile(ext, readable, cols, rows) ==
    [present |-> TRUE, extension |-> ext, readable |-> readable,
     columns |-> cols, rows |-> rows]

\* line 32
preserve_keywords ==
    {<<"u8A3A", "u7642", "u79D1">>, <<"u540D", "u79F0">>, <<"u76EE", "u6A19">>,
     <<"u7C97", "u5229">>, <<"u91D1", "u984D">>, <<"t", "a", "r", "g", "e", "t">>,
     <<"g", "o", "a", "l">>, <<"a", "m", "o", "u", "n", "t">>, <<"u5024">>}

\* lines 29-33
should_preserve(col) ==
    LET col_str == Lower(HeaderStr(col))
    IN  \E keyword \in preserve_keywords : Contains(col_str, keyword)

DaysIn(month) == IF month = 2 THEN 28
                 ELSE IF month \in {4, 6, 9, 11} THEN 30 ELSE 31

AllDigits(t) == \A i \in 1..Len(t) : IsDigit(t[i])

\* The date texts of the model: YYYY-MM-DD and YYYY-MM, with - or /.
IsDateText(t) ==
    /\ Len(t) \in {7, 10}
    /\ AllDigits(SubSeq(t, 1, 4))
    /\ t[5] \in {"-", "/"}
    /\ AllDigits(SubSeq(t, 6, 7))
    /\ DigitsToNat(SubSeq(t, 6, 7), 0) \in 1..12
    /\ Len(t) = 10 =>
          /\ t[8] = t[5]
          /\ AllDigits(SubSeq(t, 9, 10))
          /\ DigitsToNat(SubSeq(t, 9, 10), 0) \in 1..DaysIn(DigitsToNat(SubSeq(t, 6, 7), 0))

\* line 42, pd.to_datetime(col, errors='coerce'): the Timestamp of the
\* date, with its day (the first when the text has none); 0 for NaT
to_datetime(col) ==
    IF col.kind = "ts" THEN col.ts
    ELSE IF IsDateText(col.text)
    THEN Timestamp(DigitsToNat(SubSeq(col.text, 1, 4), 0),
                   DigitsToNat(SubSeq(col.text, 6, 7), 0),
                   IF Len(col.text) = 10 THEN DigitsToNat(SubSeq(col.text, 9, 10), 0) ELSE 1)
    ELSE 0

\* lines 35-49: the new name of one column
new_column(col) ==
    IF should_preserve(col) THEN col
    ELSE IF to_datetime(col) # 0 THEN Period(to_datetime(col))
    ELSE col

SupportedExtensions == {<<".", "c", "s", "v">>, <<".", "x", "l", "s", "x">>,
                        <<".", "x", "l", "s">>}

\* lines 8-62.  df[valid_columns] takes, for every name of the list, every
\* column of that name: columns renamed to one Timestamp come out once
\* per occurrence of the name.
load_data(file) ==
    IF ~file.present THEN None                                     \* lines 12-13
    ELSE IF Lower(file.extension) \notin SupportedExtensions THEN None   \* line 21
    ELSE IF ~file.readable THEN None                               \* lines 60-62
    ELSE LET n == Len(file.columns)
             renamed == [i \in 1..n |-> new_column(file.columns[i])]
             picked == Flatten([i \in 1..n |->
                          SelectSeq([j \in 1..n |-> j],
                                    LAMBDA j : renamed[j] = renamed[i])])
         IN  DataFrame([k \in 1..Len(picked) |-> renamed[picked[k]]],
                       [r \in 1..Len(file.rows) |->
                          [k \in 1..Len(picked) |-> file.rows[r][picked[k]]]])

\* ------------------------------------------------- process_data, part 1
\* line 96
IsTargetHeader(h) ==
    LET col_str == Lower(HeaderStr(h))
    IN  \/ Contains(col_str, <<"u76EE", "u6A19">>)
        \/ Contains(col_str, <<"t", "a", "r", "g", "e", "t">>)
        \/ Contains(col_str, <<"g", "o", "a", "l">>)

\* lines 89-104, with the keywords looked for in the header as written
\* instead of in its lower-case form
target_value_col_CaseSensitive(df) ==
    LET n == Len(df.columns)
        hit(h) == \/ Contains(HeaderStr(h), <<"u76EE", "u6A19">>)
                  \/ Contains(HeaderStr(h), <<"t", "a", "r", "g", "e", "t">>)
                  \/ Contains(HeaderStr(h), <<"g", "o", "a", "l">>)
    IN  IF n > 1
        THEN IF \E c \in 2..n : hit(df.columns[c])
             THEN CHOOSE c \in 2..n :
                    /\ hit(df.columns[c])
                    /\ \A b \in 2..(c - 1) : ~hit(df.columns[b])
             ELSE 2
        ELSE 0

\* lines 89-104: the index of the target-value column, 0 for None
target_value_col(df) ==
    LET n == Len(df.columns)
    IN  IF n > 1
        THEN IF \E c \in 2..n : IsTargetHeader(df.columns[c])
             THEN CHOOSE c \in 2..n :
                    /\ IsTargetHeader(df.columns[c])
                    /\ \A b \in 2..(c - 1) : ~IsTargetHeader(df.columns[b])
             ELSE 2
        ELSE 0

\* pd.api.types.is_numeric_dtype of a column: no cell holds text
is_numeric_dtype(col) == \A i \in 1..Len(col) : col[i].k # "str"

\* lines 113-118: the target-value column of the caller's DataFrame is
\* replaced, in place, by its numeric reading
CoerceTarget(df, c) ==
    IF is_numeric_dtype(Column(df, c)) THEN df
    ELSE [df EXCEPT !.rows =
            [i \in 1..Len(df.rows) |->
                [df.rows[i] EXCEPT ![c] = ToNumeric(StripSeparators(AsTypeStr(@)))]]]

\* lines 123-124: the Timestamp columns, sorted (stably) by (year, month)
date_cols(df) ==
    LET idx == SelectSeq([c \in 1..Len(df.columns) |-> c],
                         LAMBDA c : df.columns[c].kind = "ts")
        n == Len(idx)
        lt == [p \in (1..n) \X (1..n) |->
                 YearMonth(df.columns[idx[p[1]]].ts) < YearMonth(df.columns[idx[p[2]]].ts)]
        perm == StableArgsort(n, lt)
    IN  [i \in 1..n |-> idx[perm[i]]]

\* lines 155-172, with text that fails to parse counted as 0 instead of skipped
MonthRecord_ZeroFill(dept_name, target_value, actual_row, month_ts, actual_value) ==
    LET rec(v) == <<[dept |-> dept_name, month |-> month_ts, actual |-> v,
                     target |-> target_value, rate |-> Rat(v * 100, target_value)]>>
    IN  IF NotNa(actual_value)
        THEN IF actual_value.k = "str"
             THEN IF ParsesAsFloat(StripSeparators(actual_value.s))
                  THEN rec(NumeralVal(StripSeparators(actual_value.s)))
                  ELSE rec(0)
             ELSE rec(actual_value.v)
        ELSE <<>>

\* lines 155-172: the record of one month of one target row, if any
MonthRecord(dept_name, target_value, actual_row, month_ts, actual_value) ==
    LET rec(v) == <<[dept |-> dept_name, month |-> month_ts, actual |-> v,
                     target |-> target_value, rate |-> Rat(v * 100, target_value)]>>
    IN  IF NotNa(actual_value)
        THEN IF actual_value.k = "str"
             THEN IF ParsesAsFloat(StripSeparators(actual_value.s))
                  THEN rec(NumeralVal(StripSeparators(actual_value.s)))
                  ELSE <<>>
             ELSE rec(actual_value.v)
        ELSE <<>>

\* lines 140-172, taking the last matching actual row instead of the first
RowRecords_LastMatch(target_row, tcol, actual, dcols) ==
    LET dept_name == target_row[1]
        target_value == target_row[tcol]
        actual_rows == SelectSeq(actual.rows, LAMBDA r : CellEq(r[1], dept_name))
    IN  IF actual_rows = <<>> THEN <<>>
        ELSE IF NotNa(target_value) /\ target_value.v > 0
        THEN Flatten([j \in 1..Len(dcols) |->
                MonthRecord(dept_name, target_value.v, actual_rows[Len(actual_rows)],
                            actual.columns[dcols[j]].ts,
                            actual_rows[Len(actual_rows)][dcols[j]])])
        ELSE <<>>

\* lines 140-172, with the target tested for being non-zero instead of positive
RowRecords_NonZeroTarget(target_row, tcol, actual, dcols) ==
    LET dept_name == target_row[1]
        target_value == target_row[tcol]
        actual_rows == SelectSeq(actual.rows, LAMBDA r : CellEq(r[1], dept_name))
    IN  IF actual_rows = <<>> THEN <<>>
        ELSE IF NotNa(target_value) /\ target_value.v # 0
        THEN Flatten([j \in 1..Len(dcols) |->
                MonthRecord(dept_name, target_value.v, actual_rows[1],
                            actual.columns[dcols[j]].ts, actual_rows[1][dcols[j]])])
        ELSE <<>>

\* lines 140-172: what one target row appends to chart_data
RowRecords(target_row, tcol, actual, dcols) ==
    LET dept_name == target_row[1]
        target_value == target_row[tcol]
        actual_rows == SelectSeq(actual.rows, LAMBDA r : CellEq(r[1], dept_name))
    IN  IF actual_rows = <<>> THEN <<>>
        ELSE IF NotNa(target_value) /\ target_value.v > 0
        THEN Flatten([j \in 1..Len(dcols) |->
                MonthRecord(dept_name, target_value.v, actual_rows[1],
                            actual.columns[dcols[j]].ts, actual_rows[1][dcols[j]])])
        ELSE <<>>

\* lines 135-172, with chart_data a list that outlives the call
JoinRows_Accumulating(target, tcol, actual, dcols) ==
    [k \in 1..Len(chart_df) |-> [row |-> chart_src[k], rec |-> chart_df[k]]]
    \o Flatten([i \in 1..Len(target.rows) |->
        LET recs == RowRecords(target.rows[i], tcol, actual, dcols)
        IN  [j \in 1..Len(recs) |-> [row |-> i, rec |-> recs[j]]]])

\* lines 139-172, with the loop left at the first target row that has no
\* actual row instead of going on to the next row
JoinRows_StopAtMiss(target, tcol, actual, dcols) ==
    LET misses == {i \in 1..Len(target.rows) :
                     \A r \in 1..Len(actual.rows) :
                        ~CellEq(actual.rows[r][1], target.rows[i][1])}
    IN  Flatten([i \in 1..Len(target.rows) |->
            IF \E m \in misses : m <= i THEN <<>>
            ELSE LET recs == RowRecords(target.rows[i], tcol, actual, dcols)
                 IN  [j \in 1..Len(recs) |-> [row |-> i, rec |-> recs[j]]]])

\* lines 135-172: chart_data, each record with the index of the target row
\* that appended it
JoinRows(target, tcol, actual, dcols) ==
    Flatten([i \in 1..Len(target.rows) |->
        LET recs == RowRecords(target.rows[i], tcol, actual, dcols)
        IN  [j \in 1..Len(recs) |-> [row |-> i, rec |-> recs[j]]]])

\* ------------------------------------------------- process_data, part 2
Rates(df) == [i \in 1..Len(df) |-> df[i].rate]
Actuals(df) == [i \in 1..Len(df) |-> df[i].actual]

\* line 187
most_recent_month_date(chart) ==
    CHOOSE m \in {chart[i].month : i \in 1..Len(chart)} :
        \A i \in 1..Len(chart) : chart[i].month <= m

\* line 192
total_recent_profit(chart) ==
    SumSeq(Actuals(SelectSeq(chart, LAMBDA r : r.month = most_recent_month_date(chart))))

\* line 198, grouping by record instead of by department
GroupKeys_PerRecord(chart) == [i \in 1..Len(chart) |-> chart[i].dept]

\* line 198: the group keys of groupby, in sorted order
GroupKeys(chart) ==
    LET keys == {chart[i].dept : i \in 1..Len(chart)}
        pos(d) == 1 + Cardinality({e \in keys : TextLt(e.s, d.s)})
    IN  [p \in 1..Cardinality(keys) |-> CHOOSE d \in keys : pos(d) = p]

\* lines 198-199: the records of one department, sorted by month
Group(chart, dept_name) ==
    LET g == SelectSeq(chart, LAMBDA r : r.dept = dept_name)
        n == Len(g)
        lt == [p \in (1..n) \X (1..n) |-> g[p[1]].month < g[p[2]].month]
        perm == StableArgsort(n, lt)
    IN  [i \in 1..n |-> g[perm[i]]]

\* line 202, with each department's own latest month in place of the global one
recent_rate_row_OwnLatest(chart, group) ==
    SelectSeq(group, LAMBDA r : r.month = most_recent_month_date(group))

\* line 202: the department's records of the latest month
recent_rate_row(chart, group) ==
    SelectSeq(group, LAMBDA r : r.month = most_recent_month_date(chart))

\* line 215, with the fiscal year changing after April instead of in April
fy_start_year_AfterApril(today) == IF today.month > 4 THEN today.year ELSE today.year - 1

\* line 215
fy_start_year(today) == IF today.month >= 4 THEN today.year ELSE today.year - 1

\* lines 241-249, with >= and <= in place of > and <
Comment_Inclusive(recent_rate, six_month_avg_rate) ==
    IF NotNaF(recent_rate) /\ NotNaF(six_month_avg_rate)
    THEN LET diff == FSub(recent_rate, six_month_avg_rate)
         IN  IF FGe(diff, IntF(5)) THEN "improving"
             ELSE IF FGe(IntF(-5), diff) THEN "declining"
             ELSE "flat"
    ELSE ""

\* lines 241-249, with no comment where the source says flat
Comment_NoneWhenFlat(recent_rate, six_month_avg_rate) ==
    IF NotNaF(recent_rate) /\ NotNaF(six_month_avg_rate)
    THEN LET diff == FSub(recent_rate, six_month_avg_rate)
         IN  IF FGt(diff, IntF(5)) THEN "improving"
             ELSE IF FLt(diff, IntF(-5)) THEN "declining"
             ELSE ""
    ELSE ""

\* lines 241-249; the three labels stand for the source's three comments
Comment(recent_rate, six_month_avg_rate) ==
    IF NotNaF(recent_rate) /\ NotNaF(six_month_avg_rate)
    THEN LET diff == FSub(recent_rate, six_month_avg_rate)
         IN  IF FGt(diff, IntF(5)) THEN "improving"
             ELSE IF FLt(diff, IntF(-5)) THEN "declining"
             ELSE "flat"
    ELSE ""

\* lines 199-259, with the prior-year window running to the end of the prior
\* fiscal year instead of to twelve months before the latest month
SummaryRow_PriorWholeYear(chart, dept_name, today) ==
    LET group == Group(chart, dept_name)
        latest == most_recent_month_date(chart)
        total == total_recent_profit(chart)
        recent == recent_rate_row(chart, group)
        recent_rate == IF recent # <<>> THEN recent[1].rate ELSE NaNF
        recent_actual == IF recent # <<>> THEN recent[1].actual ELSE 0
        profit_share == IF total > 0 THEN Rat(recent_actual * 100, total) ELSE IntF(0)
        fy_start_date == Timestamp(fy_start_year(today), 4, 1)
        fy_df == SelectSeq(group, LAMBDA r : r.month >= fy_start_date)
        fy_avg_rate == IF fy_df # <<>> THEN FMean(Rates(fy_df)) ELSE NaNF
        six_months_ago == MinusMonths(latest, 5)
        six_month_df == SelectSeq(group, LAMBDA r : r.month >= six_months_ago /\ r.month <= latest)
        six_month_avg_rate == IF six_month_df # <<>> THEN FMean(Rates(six_month_df)) ELSE NaNF
        last_fy_start_date == Timestamp(fy_start_year(today) - 1, 4, 1)
        last_fy_end_month == fy_start_date - 1
        current_fy_actual == IF fy_df # <<>> THEN SumSeq(Actuals(fy_df)) ELSE 0
        last_fy_df == SelectSeq(group, LAMBDA r : r.month >= last_fy_start_date
                                                  /\ r.month <= last_fy_end_month)
        last_fy_actual == IF last_fy_df # <<>> THEN SumSeq(Actuals(last_fy_df)) ELSE 0
        yoy_comparison == IF last_fy_actual > 0
                          THEN Rat(current_fy_actual * 100, last_fy_actual) ELSE NaNF
    IN  [dept |-> dept_name,
         latest_rate |-> recent_rate,
         fy_avg_rate |-> fy_avg_rate,
         six_month_avg_rate |-> six_month_avg_rate,
         comment |-> Comment(recent_rate, six_month_avg_rate),
         profit_share |-> profit_share,
         yoy |-> yoy_comparison]

\* lines 199-259: the summary row of one department
SummaryRow(chart, dept_name, today) ==
    LET group == Group(chart, dept_name)
        latest == most_recent_month_date(chart)
        total == total_recent_profit(chart)
        recent == recent_rate_row(chart, group)
        recent_rate == IF recent # <<>> THEN recent[1].rate ELSE NaNF
        recent_actual == IF recent # <<>> THEN recent[1].actual ELSE 0
        profit_share == IF total > 0 THEN Rat(recent_actual * 100, total) ELSE IntF(0)
        fy_start_date == Timestamp(fy_start_year(today), 4, 1)
        fy_df == SelectSeq(group, LAMBDA r : r.month >= fy_start_date)
        fy_avg_rate == IF fy_df # <<>> THEN FMean(Rates(fy_df)) ELSE NaNF
        six_months_ago == MinusMonths(latest, 5)
        six_month_df == SelectSeq(group, LAMBDA r : r.month >= six_months_ago /\ r.month <= latest)
        six_month_avg_rate == IF six_month_df # <<>> THEN FMean(Rates(six_month_df)) ELSE NaNF
        last_fy_start_date == Timestamp(fy_start_year(today) - 1, 4, 1)
        last_fy_end_month == MinusMonths(latest, 12)
        current_fy_actual == IF fy_df # <<>> THEN SumSeq(Actuals(fy_df)) ELSE 0
        last_fy_df == SelectSeq(group, LAMBDA r : r.month >= last_fy_start_date
                                                  /\ r.month <= last_fy_end_month)
        last_fy_actual == IF last_fy_df # <<>> THEN SumSeq(Actuals(last_fy_df)) ELSE 0
        yoy_comparison == IF last_fy_actual > 0
                          THEN Rat(current_fy_actual * 100, last_fy_actual) ELSE NaNF
    IN  [dept |-> dept_name,
         latest_rate |-> recent_rate,
         fy_avg_rate |-> fy_avg_rate,
         six_month_avg_rate |-> six_month_avg_rate,
         comment |-> Comment(recent_rate, six_month_avg_rate),
         profit_share |-> profit_share,
         yoy |-> yoy_comparison]

\* lines 184-261, with rows only for the departments that have a record
\* of the latest month
summary_data_LatestOnly(chart, today) ==
    LET keys == SelectSeq(GroupKeys(chart),
                          LAMBDA d : recent_rate_row(chart, Group(chart, d)) # <<>>)
    IN  [i \in 1..Len(keys) |-> SummaryRow(chart, keys[i], today)]

\* lines 184-261: summary_data, one row per group in group order
summary_data(chart, today) ==
    LET keys == GroupKeys(chart)
    IN  [i \in 1..Len(keys) |-> SummaryRow(chart, keys[i], today)]

Reverse(s) == [i \in 1..Len(s) |-> s[Len(s) + 1 - i]]

\* ndarray.argsort(kind='quicksort') ascending.  numpy documents quicksort
\* as not stable: which way equal values come out is a property of the
\* build, here one of two.
Argsort(vals, ties) ==
    LET n == Len(vals)
        lt == [p \in (1..n) \X (1..n) |-> FLt(vals[p[1]], vals[p[2]])]
    IN  IF ties = "kept" THEN StableArgsort(n, lt) ELSE ReversingArgsort(n, lt)

\* line 264: sort_values(by=latest_rate, ascending=False, na_position='last')
\* as pandas' nargsort does it: the non-NaN values are reversed, argsorted
\* ascending and reversed back; the NaN positions follow in their order.
SortSummary(rows, ties) ==
    LET idx == [i \in 1..Len(rows) |-> i]
        non_nan_idx == Reverse(SelectSeq(idx, LAMBDA i : NotNaF(rows[i].latest_rate)))
        nan_idx == SelectSeq(idx, LAMBDA i : ~NotNaF(rows[i].latest_rate))
        non_nans == [i \in 1..Len(non_nan_idx) |-> rows[non_nan_idx[i]].latest_rate]
        order == Argsort(non_nans, ties)
        indexer == Reverse([i \in 1..Len(order) |-> non_nan_idx[order[i]]]) \o nan_idx
    IN  [i \in 1..Len(indexer) |-> rows[indexer[i]]]

\* ------------------------------------------------------- process_data
\* The whole of process_data (lines 64-275) on the caller's two tables:
\* whether it raised, the target table as it leaves it, and what it returns.
Returned(target, summary, chart, src) ==
    [raised |-> FALSE, target_df |-> target, summary_df |-> summary,
     chart_df |-> chart, chart_src |-> src]

process_data(target, actual, today, ties) ==
    IF ~target.present \/ ~actual.present
    THEN Returned(target, <<>>, <<>>, <<>>)                       \* lines 68-69
    ELSE IF Len(target.columns) = 0 \/ Len(actual.columns) = 0
    THEN [raised |-> TRUE, target_df |-> target, summary_df |-> <<>>,
          chart_df |-> <<>>, chart_src |-> <<>>]                  \* lines 82-83: IndexError
    ELSE IF target_value_col(target) = 0
    THEN Returned(target, <<>>, <<>>, <<>>)                       \* lines 106-109
    ELSE LET tcol == target_value_col(target)
             coerced == CoerceTarget(target, tcol)
             dcols == date_cols(actual)
         IN  IF dcols = <<>>
             THEN Returned(coerced, <<>>, <<>>, <<>>)             \* lines 126-129
             ELSE LET joined == JoinRows(coerced, tcol, actual, dcols)
                      chart == [i \in 1..Len(joined) |-> joined[i].rec]
                      src == [i \in 1..Len(joined) |-> joined[i].row]
                  IN  IF chart = <<>>
                      THEN Returned(coerced, <<>>, <<>>, <<>>)    \* lines 177-179
                      ELSE Returned(coerced, SortSummary(summary_data(chart, today), ties),
                                    chart, src)

\* ---------------------------------------------------- export_metrics_csv
\* A DataFrame handed to the exporter: its columns, the dtype of its month
\* column, and its rows.  The column names stand for the source's.
ChartColumns == {"dept", "month", "actual", "target", "rate"}
SummaryColumns == {"dept", "latest_rate", "fy_avg_rate", "six_month_avg_rate",
                   "comment", "profit_share", "yoy"}

\* pd.DataFrame()
EmptyFrame == [columns |-> {}, month_dtype |-> "none", rows |-> <<>>]

\* src/data_processor.py lines 174-179: chart_df as process_data returns it
ChartFrame(records) ==
    IF records = <<>> THEN EmptyFrame
    ELSE [columns |-> ChartColumns, month_dtype |-> "datetime64", rows |-> records]

\* src/data_processor.py lines 261-275: summary_df as process_data returns it
SummaryFrame(rows) ==
    IF rows = <<>> THEN EmptyFrame
    ELSE [columns |-> SummaryColumns, month_dtype |-> "none", rows |-> rows]

\* DataFrame.empty
IsEmpty(df) == df.rows = <<>> \/ df.columns = {}

\* The entity of the aggregate metrics.
Overall == Str(<<"u5168", "u4F53">>)

\* One metric record.  Of the source's fields the model keeps the entity,
\* the metric name (an ASCII name for the source's), the value, the period
\* label and the period type.
Metric(entity, name, value, label, type) ==
    [entity |-> entity, name |-> name, value |-> value, period |-> label,
     period_type |-> type]

MonthsOf(rows) == {rows[i].month : i \in 1..Len(rows)}
MaxOf(S) == CHOOSE m \in S : \A x \in S : x <= m
MinOf(S) == CHOOSE m \in S : \A x \in S : m <= x

\* lines 86-109: the caller's chart_df as the method leaves it, and the
\* period; a label is the year-months it names
calculate_period(analysis_date, period_type, chart) ==
    IF ~IsEmpty(chart) /\ "month" \in chart.columns
    THEN [chart |-> [chart EXCEPT !.month_dtype = "datetime64"],        \* line 90
          type |-> period_type,
          label |-> <<YearMonth(MinOf(MonthsOf(chart.rows))),
                      YearMonth(MaxOf(MonthsOf(chart.rows)))>>]
    ELSE [chart |-> chart,
          type |-> period_type,
          label |-> <<analysis_date.year * 12 + (analysis_date.month - 1)>>]

PresentRates(rows) ==
    SelectSeq([i \in 1..Len(rows) |-> rows[i].latest_rate], LAMBDA x : NotNaF(x))

CountRows(rows, test(_)) == Len(SelectSeq(rows, LAMBDA r : test(r.latest_rate)))

\* lines 111-214, with the middle band open above: every rate >= 100
calculate_overall_metrics_OpenMiddleBand(summary, info) ==
    IF IsEmpty(summary) THEN [raised |-> FALSE, metrics |-> <<>>]          \* lines 120-121
    ELSE IF "latest_rate" \notin summary.columns
    THEN [raised |-> TRUE, metrics |-> <<>>]                               \* line 139: KeyError
    ELSE LET rows == summary.rows
             m(name, value) == Metric(Overall, name, value, info.label, info.type)
             rates == PresentRates(rows)
         IN  [raised |-> FALSE,
              metrics |->
                <<m("dept_count", IntF(Len(rows))),
                  m("achieved_count",
                    IntF(CountRows(rows, LAMBDA x : FGe(x, IntF(100)))))>>
                \o (IF rates # <<>> THEN <<m("mean_rate", Round(FMean(rates), 1))>>
                    ELSE <<>>)
                \o <<m("band_110", IntF(CountRows(rows, LAMBDA x : FGe(x, IntF(110))))),
                     m("band_100_110",
                       IntF(CountRows(rows, LAMBDA x : FGe(x, IntF(100))))),
                     m("band_under_100",
                       IntF(CountRows(rows, LAMBDA x : FLt(x, IntF(100)))))>>]

\* lines 111-214: whether it raised, and its records
calculate_overall_metrics(summary, info) ==
    IF IsEmpty(summary) THEN [raised |-> FALSE, metrics |-> <<>>]          \* lines 120-121
    ELSE IF "latest_rate" \notin summary.columns
    THEN [raised |-> TRUE, metrics |-> <<>>]                               \* line 139: KeyError
    ELSE LET rows == summary.rows
             m(name, value) == Metric(Overall, name, value, info.label, info.type)
             rates == PresentRates(rows)
         IN  [raised |-> FALSE,
              metrics |->
                <<m("dept_count", IntF(Len(rows))),
                  m("achieved_count",
                    IntF(CountRows(rows, LAMBDA x : FGe(x, IntF(100)))))>>
                \o (IF rates # <<>> THEN <<m("mean_rate", Round(FMean(rates), 1))>>
                    ELSE <<>>)
                \o <<m("band_110", IntF(CountRows(rows, LAMBDA x : FGe(x, IntF(110))))),
                     m("band_100_110",
                       IntF(CountRows(rows, LAMBDA x : FGe(x, IntF(100)) /\ FLt(x, IntF(110))))),
                     m("band_under_100",
                       IntF(CountRows(rows, LAMBDA x : FLt(x, IntF(100)))))>>]

\* lines 412-419, with no score for an empty comment
convert_evaluation_to_score_EmptyIsZero(evaluation) ==
    IF evaluation = "improving" THEN 3
    ELSE IF evaluation = "declining" THEN 1
    ELSE IF evaluation = "flat" THEN 2
    ELSE 0

\* lines 412-419
convert_evaluation_to_score(evaluation) ==
    IF evaluation = "improving" THEN 3
    ELSE IF evaluation = "declining" THEN 1
    ELSE 2

\* lines 227-321: the records of one summary row
DepartmentRowMetrics(row, info) ==
    LET m(name, value) == Metric(row.dept, name, value, info.label, info.type)
        opt(name, value) == IF NotNaF(value) THEN <<m(name, Round(value, 1))>> ELSE <<>>
    IN  opt("latest_rate", row.latest_rate)
        \o opt("fy_avg_rate", row.fy_avg_rate)
        \o opt("six_month_avg_rate", row.six_month_avg_rate)
        \o opt("profit_share", row.profit_share)
        \o opt("yoy", row.yoy)
        \o <<m("trend_score", IntF(convert_evaluation_to_score(row.comment)))>>

\* lines 216-323
calculate_department_metrics(summary, info) ==
    IF IsEmpty(summary) THEN [raised |-> FALSE, metrics |-> <<>>]          \* lines 224-225
    ELSE IF ~(SummaryColumns \subseteq summary.columns)
    THEN [raised |-> TRUE, metrics |-> <<>>]                               \* KeyError
    ELSE [raised |-> FALSE,
          metrics |-> Flatten([i \in 1..Len(summary.rows) |->
                                 DepartmentRowMetrics(summary.rows[i], info)])]

\* line 341, chart_df['month'].nlargest(3).min(): the least of the three
\* largest month values of the rows (of all of them when there are fewer)
latest_3_months(rows) ==
    LET n == Len(rows)
        lt == [p \in (1..n) \X (1..n) |-> rows[p[1]].month > rows[p[2]].month]
        perm == StableArgsort(n, lt)
    IN  rows[perm[IF n < 3 THEN n ELSE 3]].month

\* Series.var(), ddof = 1, of two or more floats
FVar(s) ==
    LET mean == FMean(s)
        sq == [i \in 1..Len(s) |-> FMul(FSub(s[i], mean), FSub(s[i], mean))]
        t == FSum(sq)
    IN  Rat(t.n, t.d * (Len(s) - 1))

\* lines 349-350, cv = std / mean * 100.  The model does not take roots:
\* it keeps cv * |cv|, unrounded; NaN stands for the nan or inf of a zero
\* mean.
CvSquare(s) ==
    LET mean == FMean(s)
        sq == FDiv(FMul(FVar(s), IntF(10000)), FMul(mean, mean))
    IN  IF mean.n = 0 THEN NaNF
        ELSE IF mean.n < 0 THEN FSub(IntF(0), sq) ELSE sq

\* line 373, np.polyfit(x, y, 1)[0] for x = 0 .. len - 1
Slope(y) ==
    LET n == Len(y)
        xbar == Rat(n - 1, 2)
        ybar == FMean(y)
        num == FSum([i \in 1..n |-> FMul(FSub(IntF(i - 1), xbar), FSub(y[i], ybar))])
        den == FSum([i \in 1..n |-> FMul(FSub(IntF(i - 1), xbar), FSub(IntF(i - 1), xbar))])
    IN  FDiv(num, den)

\* lines 364-405, with two records enough for the trend of a department
DepartmentTrendMetrics_TwoRecords(chart, dept_name, info) ==
    LET group == Group(chart.rows, dept_name)
        m(name, value) == Metric(dept_name, name, value, info.label, info.type)
    IN  IF Len(group) >= 2
        THEN <<m("slope", Round(Slope(Rates(group)), 2)),
               m("deviation",
                 Round(FSub(group[Len(group)].rate, FMean(Rates(group))), 1))>>
        ELSE <<>>

\* lines 364-405: the records of one department
DepartmentTrendMetrics(chart, dept_name, info) ==
    LET group == Group(chart.rows, dept_name)
        m(name, value) == Metric(dept_name, name, value, info.label, info.type)
    IN  IF Len(group) >= 3
        THEN <<m("slope", Round(Slope(Rates(group)), 2)),
               m("deviation",
                 Round(FSub(group[Len(group)].rate, FMean(Rates(group))), 1))>>
        ELSE <<>>

\* lines 325-410: its records, and whether the except clause of lines
\* 407-408 swallowed an exception
calculate_trend_metrics(chart, info) ==
    IF IsEmpty(chart) \/ "month" \notin chart.columns
    THEN [swallowed |-> FALSE, chart |-> chart, metrics |-> <<>>]           \* lines 333-334
    ELSE LET written == [chart EXCEPT !.month_dtype = "datetime64"]        \* line 338
             latest == latest_3_months(chart.rows)
             recent_data == SelectSeq(chart.rows, LAMBDA r : r.month >= latest)
             cv == IF Len(recent_data) > 1
                   THEN <<Metric(Overall, "cv_3_months", CvSquare(Rates(recent_data)),
                                 <<YearMonth(latest)>>, "3_months")>>
                   ELSE <<>>
             keys == GroupKeys(chart.rows)
         IN  IF "rate" \notin chart.columns
             THEN [swallowed |-> TRUE, chart |-> written, metrics |-> <<>>]      \* line 347: KeyError
             ELSE IF "dept" \notin chart.columns
             THEN [swallowed |-> TRUE, chart |-> written, metrics |-> cv]        \* line 364: KeyError
             ELSE [swallowed |-> FALSE, chart |-> written,
                   metrics |-> cv \o Flatten([i \in 1..Len(keys) |->
                                   DepartmentTrendMetrics(chart, keys[i], info)])]

\* lines 421-424: the date and the period type the name is made of
generate_filename(analysis_date, period_type) ==
    [date |-> analysis_date, period_type |-> period_type]

\* lines 27-84: whether it raised, the caller's chart_df as it leaves it,
\* whether an exception was swallowed on the way, and what it returns
export_metrics_csv(summary, chart, analysis_date, period_type) ==
    LET info == calculate_period(analysis_date, period_type, chart)
        overall == calculate_overall_metrics(summary, info)
        dept == calculate_department_metrics(summary, info)
        trend == calculate_trend_metrics(info.chart, info)
    IN  IF overall.raised \/ dept.raised
        THEN [raised |-> TRUE, chart |-> info.chart, swallowed |-> FALSE,
              metrics |-> <<>>, filename |-> generate_filename(analysis_date, period_type)]
        ELSE [raised |-> FALSE, chart |-> trend.chart, swallowed |-> trend.swallowed,
              metrics |-> overall.metrics \o dept.metrics \o trend.metrics,
              filename |-> generate_filename(analysis_date, period_type)]

\* src/gross_profit_metrics_exporter.py lines 440-441, 524: a session
\* without tables (the reader's default is an empty DataFrame) or preview
NoPreview == [present |-> FALSE, metrics_df |-> <<>>,
              filename |-> [date |-> [year |-> 0, month |-> 0, day |-> 0],
                            period_type |-> ""]]
NewSession == [gross_profit_summary_df |-> EmptyFrame,
               gross_profit_chart_df |-> EmptyFrame,
               preview |-> NoPreview]

\* lines 463-474: the choices of the selectbox, the first the default, and
\* dates of the date_input, today the default
PeriodTypes == <<"monthly", "quarterly", "yearly">>
AppToday == [year |-> 2024, month |-> 3, day |-> 15]
OtherDate == [year |-> 2024, month |-> 2, day |-> 29]
AnalysisDates == {AppToday, OtherDate}

NoExport == [outcome |-> "none", summary |-> EmptyFrame, chart |-> EmptyFrame,
             swallowed |-> FALSE, metrics_df |-> <<>>, filename |-> NoPreview.filename]

\* A run of the script: the message of its main branch, whether it called
\* generate_html and the export interface, and the download it offers.
Screen(message, html, interface, download) ==
    [message |-> message, generate_html |-> html, export_interface |-> interface,
     download |-> download]

\* src/app.py line 132: no files yet
UploadPrompt == Screen("upload", FALSE, FALSE, NoPreview)

\* --------------------------------------------------- the export interface
\* src/gross_profit_metrics_exporter.py lines 477-550 on the session, the
\* button pressed ("none", "preview" or "csv") and what export_metrics_csv
\* makes of the session's tables: the session as the buttons leave it and
\* the download offered.
export_buttons(session, out, button) ==
    LET exported == [session EXCEPT !.gross_profit_chart_df = out.chart]
        result == [present |-> TRUE, metrics_df |-> out.metrics, filename |-> out.filename]
    IN  IF button = "preview"                                      \* lines 477-516
        THEN IF out.raised \/ out.metrics = <<>>
             THEN [session |-> exported, download |-> NoPreview]    \* lines 514-516
             ELSE [session |-> [exported EXCEPT !.preview = result],
                   download |-> NoPreview]                         \* lines 511-512
        ELSE IF button = "csv"                                     \* lines 521-550
        THEN IF session.preview.present
             THEN [session |-> session, download |-> session.preview]   \* lines 524-526
             ELSE IF out.raised
             THEN [session |-> exported, download |-> NoPreview]    \* lines 548-550
             ELSE [session |-> exported, download |-> result]       \* lines 528-544
        ELSE [session |-> session, download |-> NoPreview]

\* src/gross_profit_metrics_exporter.py lines 434-593 on the session, the
\* values of its two widgets and the button pressed.
export_interface(session, analysis_date, period_type, button) ==
    IF \/ IsEmpty(session.gross_profit_summary_df)                 \* line 440
       \/ IsEmpty(session.gross_profit_chart_df)                   \* line 441
    THEN [session |-> session, download |-> NoPreview]              \* lines 443-446
    ELSE export_buttons(session,
                        export_metrics_csv(session.gross_profit_summary_df,
                                           session.gross_profit_chart_df,
                                           analysis_date, period_type),
                        button)

\* ------------------------------------------------------- the app script
\* src/app.py lines 9-13: the import of the exporter succeeded
CSV_EXPORT_AVAILABLE == TRUE

\* src/app.py line 65, with the second test the wrong way round
results_ok_ChartTestInverted(summary, chart) == ~IsEmpty(summary) \/ IsEmpty(chart)

\* src/app.py line 65
results_ok(summary, chart) == ~IsEmpty(summary) /\ ~IsEmpty(chart)

\* What a run of the script leaves: whether it called process_data, the
\* tables it loaded, what process_data did, the session and the screen.
Ran_(called, loaded, actual_table, out, session, shown) ==
    [called |-> called, loaded |-> loaded, actual_df |-> actual_table, out |-> out,
     session |-> session, screen |-> shown]

\* src/app.py lines 66-126, on the session with the two tables stored and
\* what the export interface makes of it
script_rendered(loaded, actual_table, out, stored, shown) ==
    Ran_(TRUE, loaded, actual_table, out,
         IF CSV_EXPORT_AVAILABLE THEN shown.session ELSE stored,
         Screen("success", TRUE, CSV_EXPORT_AVAILABLE,
                IF CSV_EXPORT_AVAILABLE THEN shown.download ELSE NoPreview))

\* src/app.py lines 65-129, on what process_data did
script_checked(loaded, actual_table, out, session, analysis_date, period_type, button) ==
    LET summary == SummaryFrame(out.summary_df)
        chart == ChartFrame(out.chart_df)
        stored == [session EXCEPT !.gross_profit_summary_df = summary,
                                  !.gross_profit_chart_df = chart]   \* lines 69-70
    IN  IF out.raised
        THEN Ran_(TRUE, loaded, actual_table, out, session,
                  Screen("exception", FALSE, FALSE, NoPreview))
        ELSE IF results_ok(summary, chart)
        THEN script_rendered(loaded, actual_table, out, stored,
                             export_interface(stored, analysis_date, period_type, button))
        ELSE Ran_(TRUE, loaded, actual_table, out, session,
                  Screen("failed", FALSE, FALSE, NoPreview))           \* line 129

\* src/app.py line 62, on the two tables loaded
script_loaded(loaded, actual_table, session, today, ties, date, period_type, button) ==
    script_checked(loaded, actual_table, process_data(loaded, actual_table, today, ties),
                   session, date, period_type, button)

\* src/app.py lines 56-132, one run of the script on the uploaded files,
\* the widget values and the button pressed: the tables it loads, what
\* process_data does, the session and the screen it leaves.
script(target, actual, session, today, ties, analysis_date, period_type, button) ==
    IF ~(target.present /\ actual.present)
    THEN Ran_(FALSE, None, None, Returned(None, <<>>, <<>>, <<>>), session,
              UploadPrompt)                                         \* line 132
    ELSE script_loaded(load_data(target), load_data(actual),        \* lines 59-60
                       session, today, ties, analysis_date, period_type, button)

\* ---------------------------------------------------------------- inputs
DeptA == Str(<<"A">>)
DeptB == Str(<<"B">>)
DeptNames == {DeptA, DeptB}

DeptHeader == Label(<<"D", "e", "p", "t">>)
TargetHeader == Label(<<"T", "a", "r", "g", "e", "t">>)
TargetColumns == <<DeptHeader, TargetHeader>>

\* The actual file lists February before January.
PeriodHeaders == <<Period(Timestamp(2024, 2, 1)), Period(Timestamp(2024, 1, 1))>>
ActualColumns == <<DeptHeader>> \o PeriodHeaders

NotAvailable == Str(<<"N", "/", "A">>)

\* Rows of ncols cells: a department, then cells drawn from cells.
RowsOf(ncols, cells) ==
    {<<d>> \o r : d \in DeptNames, r \in [1..(ncols - 1) -> cells]}

\* The tables of at most maxrows such rows.
TablesOf(cols, cells, maxrows) ==
    {DataFrame(cols, rows) : rows \in SeqUpTo(RowsOf(Len(cols), cells), maxrows)}

\* The tables with one row for department A and one for department B.
PairTablesOf(cols, cellsA, cellsB) ==
    {DataFrame(cols, <<(<<DeptA>> \o a), (<<DeptB>> \o b)>>) :
        a \in [1..(Len(cols) - 1) -> cellsA], b \in [1..(Len(cols) - 1) -> cellsB]}

\* Tables the loader can hand over that lack the columns process_data needs.
DeficientTables(maxrows) ==
    {None, DataFrame(<<>>, <<>>)} \cup TablesOf(<<DeptHeader>>, {}, maxrows)

NoCall == [today |-> [year |-> 0, month |-> 0], outcome |-> "none",
           summary_df |-> <<>>, chart_df |-> <<>>]

InitApp ==
    /\ session_state = NewSession
    /\ widget_period_type = PeriodTypes[1]
    /\ widget_analysis_date = AppToday
    /\ export_call = NoExport
    /\ screen = UploadPrompt

InitWith(targets, actuals, clocks) ==
    /\ target_loaded \in targets
    /\ target_df = target_loaded
    /\ actual_df \in actuals
    /\ quicksort_ties \in {"kept", "reversed"}
    /\ clock \in clocks
    /\ default_today = clock
    /\ runs = 0
    /\ outcome = "none"
    /\ called_today = NoCall.today
    /\ summary_df = <<>>
    /\ chart_df = <<>>
    /\ chart_src = <<>>
    /\ prev = NoCall
    /\ target_file = NoFile
    /\ actual_file = NoFile
    /\ loads = {}
    /\ InitApp

March2024 == [year |-> 2024, month |-> 3]

\* Every target table of at most MaxTargetRows rows, against actual tables
\* of one row per department (or of department A alone).
TargetCells == {NaN, Num(0), Num(-100), Num(100), Str(<<"1", ",", "0", "0", "0">>),
                NotAvailable}

Init ==
    InitWith(DeficientTables(MaxTargetRows)
                \cup TablesOf(TargetColumns, TargetCells, MaxTargetRows),
             {None, DataFrame(<<>>, <<>>), DataFrame(<<DeptHeader>>, <<<<DeptA>>>>)}
                \cup PairTablesOf(ActualColumns,
                                  {NaN, Num(50), Str(<<"1", ",", "2", "0", "0">>)},
                                  {NaN, Num(50)})
                \cup {DataFrame(ActualColumns, <<<<DeptA, Num(50), NaN>>>>)},
             {March2024})

\* Every actual table of at most MaxActualRows rows, against target tables
\* of one row per department.
ActualCells == {NaN, Num(50), NotAvailable, Str(<<"1", ",", "2", "0", "0">>)}

InitActual ==
    InitWith(PairTablesOf(TargetColumns, {Str(<<"1", ",", "0", "0", "0">>)},
                          {Num(100), Num(0)}),
             DeficientTables(MaxActualRows)
                \cup TablesOf(ActualColumns, ActualCells, MaxActualRows),
             {March2024})

\* Every numeric actual table of at most MaxActualRows rows, both targets 100:
\* rates 90, 100 and 112, whose means differ from them by 5 and by 6.
RateCells == {NaN, Num(90), Num(100), Num(112)}

InitRates ==
    InitWith(PairTablesOf(TargetColumns, {Num(100)}, {Num(100)}),
             TablesOf(ActualColumns, RateCells, MaxActualRows),
             {March2024})

\* Target tables of three columns, the second and third headers drawn from
\* headers with and without a target keyword, in either case; the values
\* of the two columns differ.
MemoHeader == Label(<<"M", "e", "m", "o">>)
ValueHeader == Label(<<"V", "a", "l", "u", "e">>)
GoalHeader == Label(<<"G", "O", "A", "L">>)
MokuhyoHeader == Label(<<"u76EE", "u6A19">>)
TargetSideHeaders == {MemoHeader, ValueHeader, GoalHeader, TargetHeader, MokuhyoHeader}

InitColumns ==
    InitWith(UNION {PairTablesOf(<<DeptHeader, h2, h3>>, {Num(100), Num(200)}, {Num(100)}) :
                        h2 \in TargetSideHeaders, h3 \in TargetSideHeaders},
             PairTablesOf(ActualColumns, {Num(50)}, {NaN, Num(50)}),
             {March2024})

\* Actual tables with periods on both sides of April 1, 2024, called on
\* days before and after the fiscal year changes.
FiscalHeaders == <<Period(Timestamp(2024, 4, 1)), Period(Timestamp(2024, 3, 1)),
                   Period(Timestamp(2023, 4, 1))>>
FiscalClocks == {March2024, [year |-> 2024, month |-> 4], [year |-> 2025, month |-> 1]}

InitFiscal ==
    InitWith(PairTablesOf(TargetColumns, {Num(100)}, {Num(100)}),
             PairTablesOf(<<DeptHeader>> \o FiscalHeaders,
                          {NaN, Num(90), Num(112)}, {NaN, Num(100)}),
             FiscalClocks)

\* Actual tables with periods at the latest month, five months before it,
\* six months before it and twelve months before it, called before and
\* after the fiscal year changes.
WindowHeaders == <<Period(Timestamp(2024, 6, 1)), Period(Timestamp(2024, 1, 1)),
                   Period(Timestamp(2023, 12, 1)), Period(Timestamp(2023, 6, 1))>>
WindowClocks == {March2024, [year |-> 2024, month |-> 6]}

InitWindow ==
    InitWith(PairTablesOf(TargetColumns, {Num(100)}, {Num(100)}),
             PairTablesOf(<<DeptHeader>> \o WindowHeaders,
                          {NaN, Num(90), Num(112)}, {NaN, Num(0), Num(100)}),
             WindowClocks)

\* A process that imports data_processor in March 2024 and keeps running
\* into the next fiscal year, on the tables with periods on both sides of
\* April 1, 2024.
InitClock ==
    InitWith(PairTablesOf(TargetColumns, {Num(100)}, {Num(100)}),
             PairTablesOf(<<DeptHeader>> \o FiscalHeaders,
                          {NaN, Num(90), Num(112)}, {NaN, Num(100)}),
             {March2024})

\* Uploaded files whose headers are drawn, without repetition, from labels
\* with and without a preserve keyword, date texts (two of one month), a
\* text that is no date, and a header that Excel hands over as a datetime.
MaxFileColumns == 3

RawHeaders ==
    {DeptHeader, MemoHeader, Label(<<"A", "M", "O", "U", "N", "T">>),
     Label(<<"2", "0", "2", "4", "-", "0", "1", "-", "0", "1">>),
     Label(<<"2", "0", "2", "4", "-", "0", "1", "-", "1", "5">>),
     Label(<<"2", "0", "2", "4", "/", "0", "2">>),
     Label(<<"2", "0", "2", "4", "-", "1", "3", "-", "0", "1">>),
     Period(Timestamp(2024, 1, 1))}

Extensions == {<<".", "c", "s", "v">>, <<".", "X", "L", "S", "X">>, <<".", "t", "x", "t">>}

\* One row, the cell of column i holding the number i.
FilesOf(headers, maxcols) ==
    {UploadedFile(ext, readable, cols, <<[i \in 1..Len(cols) |-> Num(i)]>>) :
        ext \in Extensions, readable \in BOOLEAN,
        cols \in {c \in SeqUpTo(headers, maxcols) :
                    \A i, j \in 1..Len(c) : c[i] = c[j] => i = j}}

InitLoad ==
    /\ target_file \in {NoFile,
                         UploadedFile(<<".", "c", "s", "v">>, TRUE, TargetColumns,
                                      <<<<DeptA, Num(100)>>>>)}
    /\ actual_file \in {NoFile} \cup FilesOf(RawHeaders, MaxFileColumns)
    /\ target_loaded = None
    /\ target_df = None
    /\ actual_df = None
    /\ quicksort_ties = "kept"
    /\ clock = March2024
    /\ default_today = clock
    /\ runs = 0
    /\ outcome = "none"
    /\ called_today = NoCall.today
    /\ summary_df = <<>>
    /\ chart_df = <<>>
    /\ chart_src = <<>>
    /\ prev = NoCall
    /\ loads = {}
    /\ InitApp

\* The pipeline before any file is loaded.
InitIdle ==
    /\ target_file = NoFile
    /\ actual_file = NoFile
    /\ target_loaded = None
    /\ target_df = None
    /\ actual_df = None
    /\ quicksort_ties = "kept"
    /\ clock = March2024
    /\ default_today = clock
    /\ runs = 0
    /\ outcome = "none"
    /\ called_today = NoCall.today
    /\ summary_df = <<>>
    /\ chart_df = <<>>
    /\ chart_src = <<>>
    /\ prev = NoCall
    /\ loads = {}

\* Tables for the exporter: what process_data returns for actual tables of
\* three months, and, for a caller that builds its tables otherwise, the
\* same tables emptied, with the months as text, or without a column.
ExportHeaders == <<Period(Timestamp(2024, 1, 1)), Period(Timestamp(2024, 2, 1)),
                   Period(Timestamp(2024, 3, 1))>>

\* Periods a year apart, for a year-over-year ratio.
YearApartHeaders == <<Period(Timestamp(2023, 3, 1)), Period(Timestamp(2024, 3, 1))>>

ExportResults ==
    {process_data(DataFrame(TargetColumns, <<<<DeptA, Num(100)>>, <<DeptB, Num(100)>>>>),
                  a, March2024, "kept") :
        a \in PairTablesOf(<<DeptHeader>> \o ExportHeaders,
                           {NaN, Num(90), Num(112)}, {NaN, Num(100)})
              \cup PairTablesOf(<<DeptHeader>> \o YearApartHeaders,
                                {Num(90), Num(112)}, {NaN, Num(100)})}

SummaryVariants(rows) ==
    {SummaryFrame(rows), EmptyFrame}
    \cup (IF rows = <<>> THEN {}
          ELSE {[SummaryFrame(rows) EXCEPT !.columns = @ \ {"latest_rate"}]})

ChartVariants(records) ==
    {ChartFrame(records), EmptyFrame}
    \cup (IF records = <<>> THEN {}
          ELSE {[ChartFrame(records) EXCEPT !.month_dtype = "object"],
                [ChartFrame(records) EXCEPT !.columns = @ \ {"rate"}],
                [ChartFrame(records) EXCEPT !.columns = @ \ {"dept"}]})

InitExport ==
    /\ InitIdle
    /\ \E out \in ExportResults :
          session_state \in
            {[NewSession EXCEPT !.gross_profit_summary_df = summary,
                                !.gross_profit_chart_df = chart] :
                summary \in SummaryVariants(out.summary_df),
                chart \in ChartVariants(out.chart_df)}
    /\ widget_period_type \in Range(PeriodTypes)
    /\ widget_analysis_date \in AnalysisDates
    /\ export_call = NoExport
    /\ screen = UploadPrompt

\* The files of the app's runs: a target file, actual files of three months
\* with different values, an actual file without a period column, and the
\* empty sheet of a workbook.
AppTargetFile ==
    UploadedFile(<<".", "c", "s", "v">>, TRUE, TargetColumns,
                 <<<<DeptA, Num(100)>>, <<DeptB, Num(100)>>>>)

MonthTexts == <<Label(<<"2", "0", "2", "4", "-", "0", "1", "-", "0", "1">>),
                Label(<<"2", "0", "2", "4", "-", "0", "2", "-", "0", "1">>),
                Label(<<"2", "0", "2", "4", "-", "0", "3", "-", "0", "1">>)>>

AppActualFile(a1, a2, a3) ==
    UploadedFile(<<".", "c", "s", "v">>, TRUE, <<DeptHeader>> \o MonthTexts,
                 <<<<DeptA, Num(a1), Num(a2), Num(a3)>>,
                   <<DeptB, Num(100), Num(100), Num(100)>>>>)

AppTargetFiles == {NoFile, AppTargetFile}
AppActualFiles ==
    {NoFile, AppActualFile(90, 90, 112), AppActualFile(112, 90, 90),
     UploadedFile(<<".", "c", "s", "v">>, TRUE, <<DeptHeader, MemoHeader>>,
                  <<<<DeptA, Num(90)>>>>),
     UploadedFile(<<".", "x", "l", "s", "x">>, TRUE, <<>>, <<>>)}

\* The app as a session starts: the script has run once, without files.
InitScript ==
    /\ InitIdle
    /\ InitApp

\* --------------------------------------------------------------- actions
\* The caller's call of src/app.py line 62:
\* process_data(target_df, actual_df, today=datetime.now()).
ProcessData ==
    /\ runs < MaxRuns
    /\ \E out \in {process_data(target_df, actual_df, clock, quicksort_ties)} :
           /\ target_df' = out.target_df
           /\ outcome' = IF out.raised THEN "raised" ELSE "returned"
           /\ summary_df' = out.summary_df
           /\ chart_df' = out.chart_df
           /\ chart_src' = out.chart_src
    /\ called_today' = clock
    /\ runs' = runs + 1
    /\ prev' = [today |-> called_today, outcome |-> outcome,
                summary_df |-> summary_df, chart_df |-> chart_df]
    /\ UNCHANGED <<target_loaded, actual_df, quicksort_ties, clock, default_today,
                   target_file, actual_file, loads>>
    /\ UNCHANGED appvars

\* A call that leaves `today` out: process_data(target_df, actual_df).
\* src/data_processor.py line 64: the parameter takes its default, the
\* value datetime.now() had when the def statement ran, at import.
ProcessDataNoToday ==
    /\ runs < MaxRuns
    /\ \E out \in {process_data(target_df, actual_df, default_today, quicksort_ties)} :
           /\ target_df' = out.target_df
           /\ outcome' = IF out.raised THEN "raised" ELSE "returned"
           /\ summary_df' = out.summary_df
           /\ chart_df' = out.chart_df
           /\ chart_src' = out.chart_src
    /\ called_today' = default_today
    /\ runs' = runs + 1
    /\ prev' = [today |-> called_today, outcome |-> outcome,
                summary_df |-> summary_df, chart_df |-> chart_df]
    /\ UNCHANGED <<target_loaded, actual_df, quicksort_ties, clock, default_today,
                   target_file, actual_file, loads>>
    /\ UNCHANGED appvars

\* The month after a month.
MonthAfter(c) ==
    IF c.month = 12 THEN [year |-> c.year + 1, month |-> 1]
    ELSE [year |-> c.year, month |-> c.month + 1]

\* The months the process has been running since it imported the module.
MonthsRunning ==
    (clock.year * 12 + clock.month) - (default_today.year * 12 + default_today.month)

\* Time passes in the running process: datetime.now() moves on a month.
Tick ==
    /\ MonthsRunning < MaxMonthsRunning
    /\ clock' = MonthAfter(clock)
    /\ UNCHANGED <<target_loaded, target_df, actual_df, quicksort_ties, default_today,
                   runs, outcome, called_today, summary_df, chart_df, chart_src, prev,
                   target_file, actual_file, loads>>
    /\ UNCHANGED appvars

\* src/app.py line 59: target_df = load_data(target_file)
LoadTarget ==
    /\ target_loaded' = load_data(target_file)
    /\ target_df' = load_data(target_file)
    /\ loads' = loads \cup {"target"}
    /\ UNCHANGED <<actual_df, quicksort_ties, clock, default_today, runs, outcome, called_today,
                   summary_df, chart_df, chart_src, prev, target_file, actual_file>>
    /\ UNCHANGED appvars

\* src/app.py line 60: actual_df = load_data(actual_file)
LoadActual ==
    /\ actual_df' = load_data(actual_file)
    /\ loads' = loads \cup {"actual"}
    /\ UNCHANGED <<target_loaded, target_df, quicksort_ties, clock, default_today, runs, outcome,
                   called_today, summary_df, chart_df, chart_src, prev,
                   target_file, actual_file>>
    /\ UNCHANGED appvars

\* A call of GrossProfitMetricsExporter.export_metrics_csv on the caller's
\* two tables, as in src/gross_profit_metrics_exporter.py lines 480-483.
ExportMetricsCsv ==
    /\ \E out \in {export_metrics_csv(session_state.gross_profit_summary_df,
                                        session_state.gross_profit_chart_df,
                                        widget_analysis_date, widget_period_type)} :
           /\ session_state' = [session_state EXCEPT !.gross_profit_chart_df = out.chart]
           /\ export_call' =
                [outcome |-> IF out.raised THEN "raised" ELSE "returned",
                 summary |-> session_state.gross_profit_summary_df,
                 chart |-> session_state.gross_profit_chart_df,
                 swallowed |-> out.swallowed,
                 metrics_df |-> IF out.raised THEN <<>> ELSE out.metrics,
                 filename |-> IF out.raised THEN NoPreview.filename ELSE out.filename]
    /\ UNCHANGED <<target_loaded, target_df, actual_df, quicksort_ties, clock, default_today, runs,
                   outcome, called_today, summary_df, chart_df, chart_src, prev,
                   target_file, actual_file, loads,
                   widget_period_type, widget_analysis_date, screen>>

\* One run of the script of src/app.py, as Streamlit starts it after an
\* interaction.  A widget that a run does not show loses its value.
RunScript(target, actual, analysis_date, period_type, button) ==
    /\ runs < MaxScriptRuns
    /\ \E run \in {script(target, actual, session_state, clock, quicksort_ties,
                            analysis_date, period_type, button)} :
           /\ target_loaded' = run.loaded
           /\ target_df' = run.out.target_df
           /\ actual_df' = run.actual_df
           /\ outcome' = IF ~run.called THEN "none"
                         ELSE IF run.out.raised THEN "raised" ELSE "returned"
           /\ summary_df' = run.out.summary_df
           /\ chart_df' = run.out.chart_df
           /\ chart_src' = run.out.chart_src
           /\ loads' = IF run.called THEN {"target", "actual"} ELSE {}
           /\ session_state' = run.session
           /\ screen' = run.screen
           /\ widget_period_type' =
                IF run.screen.export_interface THEN period_type ELSE PeriodTypes[1]
           /\ widget_analysis_date' =
                IF run.screen.export_interface THEN analysis_date ELSE AppToday
    /\ target_file' = target
    /\ actual_file' = actual
    /\ called_today' = clock
    /\ runs' = runs + 1
    /\ prev' = [today |-> called_today, outcome |-> outcome,
                summary_df |-> summary_df, chart_df |-> chart_df]
    /\ UNCHANGED <<quicksort_ties, clock, default_today, export_call>>

\* src/app.py lines 35-44: a file is put into, or taken out of, an uploader
Upload ==
    \E target \in AppTargetFiles, actual \in AppActualFiles :
        /\ <<target, actual>> # <<target_file, actual_file>>
        /\ RunScript(target, actual, widget_analysis_date, widget_period_type, "none")

\* src/gross_profit_metrics_exporter.py lines 463-467: the selectbox
SelectPeriodType ==
    /\ screen.export_interface
    /\ \E type \in Range(PeriodTypes) \ {widget_period_type} :
           RunScript(target_file, actual_file, widget_analysis_date, type, "none")

\* src/gross_profit_metrics_exporter.py lines 470-474: the date_input
PickDate ==
    /\ screen.export_interface
    /\ \E date \in AnalysisDates \ {widget_analysis_date} :
           RunScript(target_file, actual_file, date, widget_period_type, "none")

\* src/gross_profit_metrics_exporter.py line 477: the preview button
ClickPreview ==
    /\ screen.export_interface
    /\ RunScript(target_file, actual_file, widget_analysis_date, widget_period_type,
                 "preview")

\* src/gross_profit_metrics_exporter.py line 521: the CSV button
ClickCsv ==
    /\ screen.export_interface
    /\ RunScript(target_file, actual_file, widget_analysis_date, widget_period_type,
                 "csv")

Next == ProcessData
NextLoad == LoadTarget \/ LoadActual
NextScript == Upload \/ SelectPeriodType \/ PickDate \/ ClickPreview \/ ClickCsv
NextExport == ExportMetricsCsv
NextClock == ProcessData \/ ProcessDataNoToday \/ Tick

Spec == Init /\ [][Next]_vars
SpecActual == InitActual /\ [][Next]_vars
SpecRates == InitRates /\ [][Next]_vars
SpecColumns == InitColumns /\ [][Next]_vars
SpecFiscal == InitFiscal /\ [][Next]_vars
SpecWindow == InitWindow /\ [][Next]_vars
SpecClock == InitClock /\ [][NextClock]_vars
SpecLoad == InitLoad /\ [][NextLoad]_vars
SpecExport == InitExport /\ [][NextExport]_vars
SpecScript == InitScript /\ [][NextScript]_vars

\* ================================================================ claims
\* What the claims say of a cell, read off the loaded tables.
\* A cell that holds a number: a number, or text that is a numeral once
\* the thousands separators are gone.
IsNumber(c) == \/ c.k = "num"
               \/ c.k = "str" /\ IsNumeral(StripSeparators(c.s))

NumberOf(c) == IF c.k = "num" THEN c.v ELSE NumeralVal(StripSeparators(c.s))

IsBadText(c) == c.k = "str" /\ ~IsNumeral(StripSeparators(c.s))

TargetRowIds == 1..Len(target_loaded.rows)

\* The target value of target row i: the cell of the second column.
TargetCell(i) == target_loaded.rows[i][2]

HasTargetValue == target_loaded.present /\ Len(target_loaded.columns) >= 2

ValidTarget(i) == IsNumber(TargetCell(i)) /\ NumberOf(TargetCell(i)) > 0

\* The actual rows of the department of target row i.
MatchesOf(i) ==
    {r \in 1..Len(actual_df.rows) : actual_df.rows[r][1] = target_loaded.rows[i][1]}

Matched(i) == MatchesOf(i) # {}

FirstMatch(i) == CHOOSE r \in MatchesOf(i) : \A q \in MatchesOf(i) : r <= q

PeriodCols == {c \in 1..Len(actual_df.columns) : actual_df.columns[c].kind = "ts"}

\* The cell of target row i's department for period column c.
ActualCell(i, c) == actual_df.rows[FirstMatch(i)][c]

\* The chart_df records target row i gave rise to for period column c.
RecordsOf(i, c) ==
    {k \in 1..Len(chart_df) : chart_src[k] = i /\ chart_df[k].month = actual_df.columns[c].ts}

Ran == runs >= 1 /\ outcome = "returned"

\* C1: process_data emits, for every target row with a present target
\* value > 0 whose department equals that of an actual row, exactly one
\* AchievementRecord for each period column whose cell in the first matching
\* actual row is present and numeric, with rate = actual / target * 100,
\* and no AchievementRecord for any other (department, period).
C1_OneRecordPerNumericCell ==
    (Ran /\ HasTargetValue) =>
        /\ \A i \in TargetRowIds : \A c \in PeriodCols :
             IF ValidTarget(i) /\ Matched(i) /\ IsNumber(ActualCell(i, c))
             THEN /\ Cardinality(RecordsOf(i, c)) = 1
                  /\ \A k \in RecordsOf(i, c) :
                       /\ chart_df[k].dept = target_loaded.rows[i][1]
                       /\ chart_df[k].rate =
                            Rat(NumberOf(ActualCell(i, c)) * 100, NumberOf(TargetCell(i)))
             ELSE RecordsOf(i, c) = {}
        /\ \A k \in 1..Len(chart_df) :
             \E i \in TargetRowIds : \E c \in PeriodCols : k \in RecordsOf(i, c)

\* A run that turned the text cell 1,200 into a record and skipped a
\* department's N/A cell.
C1_Witness ==
    /\ Ran
    /\ \E k \in 1..Len(chart_df) : chart_df[k].actual = 1200
    /\ \E i \in TargetRowIds : \E c \in PeriodCols :
          Matched(i) /\ ActualCell(i, c) = NotAvailable
    /\ \E i \in TargetRowIds : ~Matched(i)

\* The departments of the target table.
TargetDepts == {target_loaded.rows[i][1] : i \in TargetRowIds}

EveryTargetMatchedAndPositive ==
    /\ HasTargetValue
    /\ TargetRowIds # {}
    /\ \A i \in TargetRowIds : Matched(i) /\ ValidTarget(i)

\* C2 as stated: when every department of the target table has a matching
\* actual row and a target value > 0, the number of DepartmentSummary rows
\* equals the number of matched departments.
C2_OneSummaryPerMatchedDept ==
    (Ran /\ EveryTargetMatchedAndPositive) =>
        Len(summary_df) = Cardinality(TargetDepts)

\* C2 as amended: under the same condition, the number of DepartmentSummary
\* rows equals the number of matched departments whose first matching
\* actual row holds a present numeric value for at least one period.
C2_OneSummaryPerDeptWithData ==
    (Ran /\ EveryTargetMatchedAndPositive) =>
        Len(summary_df) =
            Cardinality({target_loaded.rows[i][1] : i \in
                {j \in TargetRowIds : \E c \in PeriodCols : IsNumber(ActualCell(j, c))}})

\* Two matched departments, one of them without any numeric cell.
C2_Witness ==
    /\ Ran /\ EveryTargetMatchedAndPositive
    /\ Cardinality(TargetDepts) = 2
    /\ Len(summary_df) = 1

\* The latest period of the run: the greatest month of chart_df.
IsLatest(m) == /\ \E k \in 1..Len(chart_df) : chart_df[k].month = m
               /\ \A k \in 1..Len(chart_df) : chart_df[k].month <= m

HasRecordAt(dept_name, m) ==
    \E k \in 1..Len(chart_df) : chart_df[k].dept = dept_name /\ chart_df[k].month = m

\* C3: in every DepartmentSummary, latest_rate is present iff the department
\* has an AchievementRecord at the one latest period of the whole run.
C3_LatestRateIffRecordAtLatest ==
    Ran => \A m \in {chart_df[k].month : k \in 1..Len(chart_df)} :
             IsLatest(m) =>
                \A i \in 1..Len(summary_df) :
                    NotNaF(summary_df[i].latest_rate)
                        <=> HasRecordAt(summary_df[i].dept, m)

\* One department with a rate at the latest month, one with records but
\* none at the latest month.
C3_Witness ==
    /\ Ran
    /\ \E i, j \in 1..Len(summary_df) :
          NotNaF(summary_df[i].latest_rate) /\ ~NotNaF(summary_df[j].latest_rate)

\* total_recent_profit as the claims define it: the sum of actual_value over
\* the AchievementRecords at the latest period.
RECURSIVE SumActualAt(_, _)
SumActualAt(k, m) ==
    IF k = 0 THEN 0
    ELSE SumActualAt(k - 1, m) + (IF chart_df[k].month = m THEN chart_df[k].actual ELSE 0)

RECURSIVE SumShares(_)
SumShares(i) == IF i = 0 THEN IntF(0)
                ELSE FAdd(SumShares(i - 1), summary_df[i].profit_share)

\* C4: when every department of the DepartmentSummary has an
\* AchievementRecord at the latest period and total_recent_profit > 0, the
\* profit_share_pct values of all rows sum to 100.
C4_SharesSumTo100 ==
    Ran => \A m \in {chart_df[k].month : k \in 1..Len(chart_df)} :
             ( /\ IsLatest(m)
               /\ \A i \in 1..Len(summary_df) : HasRecordAt(summary_df[i].dept, m)
               /\ SumActualAt(Len(chart_df), m) > 0 )
             => SumShares(Len(summary_df)) = IntF(100)

\* C5: a second run of process_data on the same two tables with the same
\* today returns the same DepartmentSummary and AchievementRecord sequences
\* as the first.
C5_SecondRunSameResult ==
    (runs >= 2 /\ prev.today = called_today) =>
        /\ prev.outcome = outcome
        /\ prev.summary_df = summary_df
        /\ prev.chart_df = chart_df

\* A second run on a target table whose text the first run replaced by
\* numbers, both runs returning records.
C5_Witness ==
    /\ runs = 2
    /\ prev.today = called_today
    /\ target_df # target_loaded
    /\ chart_df # <<>>
    /\ prev.chart_df # <<>>

\* C6: a target row whose target value is 0, negative, missing or text that
\* is no number gives rise to no AchievementRecord, whatever the actual
\* table holds.
C6_NoRecordWithoutPositiveTarget ==
    (Ran /\ HasTargetValue) =>
        \A i \in TargetRowIds :
            ~ValidTarget(i) => \A k \in 1..Len(chart_df) : chart_src[k] # i

\* A run that returned records, with a target row of target 0, one of a
\* negative target and one of unparsable text, each matching an actual row
\* that holds a number.
C6_Witness ==
    /\ Ran
    /\ chart_df # <<>>
    /\ \E i \in TargetRowIds :
          /\ TargetCell(i) \in {Num(0), Num(-100), NotAvailable, NaN}
          /\ Matched(i)
          /\ \E c \in PeriodCols : IsNumber(ActualCell(i, c))

\* C7: non-numeric text in an actual cell of a matched department drops the
\* AchievementRecord of that (department, period) only; the department's
\* periods with valid values still get their records and the run returns.
C7_BadTextSkipsOnlyItsMonth ==
    (runs >= 1 /\ HasTargetValue) =>
        \A i \in TargetRowIds : \A c \in PeriodCols :
            (ValidTarget(i) /\ Matched(i) /\ IsBadText(ActualCell(i, c))) =>
                /\ outcome = "returned"
                /\ RecordsOf(i, c) = {}
                /\ \A c2 \in PeriodCols :
                      IsNumber(ActualCell(i, c2)) => RecordsOf(i, c2) # {}

\* A department with N/A in one month and a number in the other, whose
\* record of the other month was returned.
C7_Witness ==
    /\ Ran
    /\ \E i \in TargetRowIds : \E c, c2 \in PeriodCols :
          /\ ValidTarget(i) /\ Matched(i)
          /\ IsBadText(ActualCell(i, c))
          /\ IsNumber(ActualCell(i, c2))
          /\ RecordsOf(i, c2) # {}

C9_TrendLabelThresholds ==
    Ran => \A i \in 1..Len(summary_df) :
             LET r == summary_df[i]
                 diff == FSub(r.latest_rate, r.six_month_avg_rate)
             IN  IF r.latest_rate.nan \/ r.six_month_avg_rate.nan
                 THEN r.comment = ""
                 ELSE /\ (r.comment = "improving") <=> (diff.n > 5 * diff.d)
                      /\ (r.comment = "declining") <=> (diff.n < (-5) * diff.d)
                      /\ (r.comment = "flat") <=>
                            (diff.n <= 5 * diff.d /\ diff.n >= (-5) * diff.d)

DiffOf(r) == FSub(r.latest_rate, r.six_month_avg_rate)

\* Rows at diff = 5, diff = -5, above and below, and a row without a label.
C9_Witness ==
    /\ Ran
    /\ \E i, j \in 1..Len(summary_df) :
          /\ DiffOf(summary_df[i]) = IntF(5) /\ summary_df[i].comment = "flat"
          /\ DiffOf(summary_df[j]) = IntF(-6) /\ summary_df[j].comment = "declining"

\* The structurally deficient inputs of C10.
Deficient ==
    \/ target_loaded.present /\ Len(target_loaded.columns) < 2
    \/ actual_df.present /\ (actual_df.rows = <<>> \/ PeriodCols = {})

\* C10: process_data never raises on a structurally deficient input: with a
\* target table of 0 or 1 columns, an empty actual table or one without a
\* period column, or a join that yields no AchievementRecord, it returns
\* two empty tables.
C10_DeficientInputReturnsEmpty ==
    (runs >= 1 /\ target_loaded.present /\ actual_df.present) =>
        /\ outcome = "returned"
        /\ Deficient => (summary_df = <<>> /\ chart_df = <<>>)
        /\ chart_df = <<>> => summary_df = <<>>

\* A target row that yields records: a valid target, a matching actual row,
\* and a number in some period cell of the first match.
YieldsRecords(i) ==
    /\ ValidTarget(i)
    /\ Matched(i)
    /\ \E c \in PeriodCols : IsNumber(ActualCell(i, c))

\* C11 as stated: a target department with no matching actual row is skipped
\* without failing the run, and the run returns non-empty DepartmentSummary
\* and AchievementRecord tables whenever at least one target department
\* matches an actual row (of an actual table that has period columns).
C11_SucceedsWheneverOneMatches ==
    (runs >= 1 /\ HasTargetValue /\ PeriodCols # {}
        /\ \E i \in TargetRowIds : Matched(i)) =>
        /\ outcome = "returned"
        /\ summary_df # <<>>
        /\ chart_df # <<>>

\* C11 as amended: a target department with no matching actual row is
\* skipped (it yields no record) without failing the run, and the run
\* returns non-empty tables whenever at least one target row with a target
\* value > 0 matches an actual row whose first match holds a number for at
\* least one period.
C11_SucceedsWheneverOneYields ==
    (runs >= 1 /\ HasTargetValue /\ PeriodCols # {}
        /\ \E i \in TargetRowIds : Matched(i)) =>
        /\ outcome = "returned"
        /\ \A i \in TargetRowIds :
              ~Matched(i) => \A k \in 1..Len(chart_df) : chart_src[k] # i
        /\ (\E i \in TargetRowIds : YieldsRecords(i)) =>
              (summary_df # <<>> /\ chart_df # <<>>)

\* A run that skipped the first target row for want of an actual row and
\* built its tables from the second.
C11_Witness ==
    /\ Ran
    /\ HasTargetValue
    /\ PeriodCols # {}
    /\ Len(target_loaded.rows) = 2
    /\ ~Matched(1)
    /\ YieldsRecords(2)
    /\ summary_df # <<>>
    /\ \A k \in 1..Len(chart_df) : chart_src[k] = 2

\* C12: the AchievementRecord set returned by process_data contains at most
\* one record per (department, period) pair, also when the target table or
\* the actual table lists the same department name more than once.
C12_OneRecordPerDeptPeriod ==
    Ran => \A k1, k2 \in 1..Len(chart_df) :
              (chart_df[k1].dept = chart_df[k2].dept
               /\ chart_df[k1].month = chart_df[k2].month) => k1 = k2

\* A header that contains a target/goal keyword, whatever its case.
HasTargetKeyword(h) ==
    /\ h.kind = "label"
    /\ \E kw \in {<<"u76EE", "u6A19">>, <<"t", "a", "r", "g", "e", "t">>,
                  <<"g", "o", "a", "l">>} : Contains(Lower(h.text), kw)

\* The target-value column the claim names: the first of the columns after
\* the department column with a keyword, the second column when none has.
KeywordCols == {c \in 2..Len(target_loaded.columns) : HasTargetKeyword(target_loaded.columns[c])}

NamedTargetCol ==
    IF KeywordCols # {} THEN CHOOSE c \in KeywordCols : \A b \in KeywordCols : c <= b
    ELSE 2

\* C19: for the target table, process_data uses column 0 as the department
\* key and, as target-value column, the first column among columns 1..N
\* whose header case-insensitively contains a target/goal keyword; when no
\* header matches, it uses column index 1.
C19_TargetColumnResolution ==
    (Ran /\ HasTargetValue /\ PeriodCols # {}) =>
        /\ \A k \in 1..Len(chart_df) :
              /\ chart_df[k].dept = target_loaded.rows[chart_src[k]][1]
              /\ IsNumber(target_loaded.rows[chart_src[k]][NamedTargetCol])
              /\ chart_df[k].target = NumberOf(target_loaded.rows[chart_src[k]][NamedTargetCol])
        /\ \A i \in TargetRowIds :
              (/\ IsNumber(target_loaded.rows[i][NamedTargetCol])
               /\ NumberOf(target_loaded.rows[i][NamedTargetCol]) > 0
               /\ Matched(i)
               /\ \E c \in PeriodCols : IsNumber(ActualCell(i, c)))
              => \E k \in 1..Len(chart_df) : chart_src[k] = i

\* A run on a target table whose second header has no keyword and whose
\* third is the upper-case GOAL: the targets are those of the third column.
C19_Witness ==
    /\ Ran
    /\ Len(target_loaded.columns) = 3
    /\ target_loaded.columns[2] = MemoHeader
    /\ target_loaded.columns[3] = GoalHeader
    /\ \E k \in 1..Len(chart_df) :
          /\ chart_df[k].target = 200
          /\ target_loaded.rows[chart_src[k]][2] = Num(100)

\* The fiscal-year start the claim names for the last call.
NamedFiscalStart ==
    Timestamp(IF called_today.month >= 4 THEN called_today.year
              ELSE called_today.year - 1, 4, 1)

\* The AchievementRecords of a department from the fiscal-year start on.
FiscalRecords(dept_name) ==
    SelectSeq(chart_df, LAMBDA r : r.dept = dept_name /\ r.month >= NamedFiscalStart)

\* C20: for every DepartmentSummary, the fiscal-year start is April 1 of
\* today.year when today.month >= 4 and of today.year - 1 otherwise, and
\* fiscal_ytd_avg_rate is the mean of achievement_rate over exactly the
\* department's AchievementRecords with period >= that start, or missing
\* when there are none.
C20_FiscalYearAverage ==
    Ran => \A i \in 1..Len(summary_df) :
              LET recs == FiscalRecords(summary_df[i].dept)
              IN  IF recs = <<>>
                  THEN summary_df[i].fy_avg_rate = NaNF
                  ELSE /\ NotNaF(summary_df[i].fy_avg_rate)
                       /\ FSum([k \in 1..Len(recs) |-> summary_df[i].fy_avg_rate])
                            = FSum(Rates(recs))

\* A call in April 2024 on a department with records in March and April
\* 2024: the average is the April rate alone; and a department without a
\* record from April 2024 on, whose average is missing.
C20_Witness ==
    /\ Ran
    /\ called_today = [year |-> 2024, month |-> 4]
    /\ \E i \in 1..Len(summary_df) :
          /\ summary_df[i].fy_avg_rate = IntF(112)
          /\ \E k \in 1..Len(chart_df) :
                /\ chart_df[k].dept = summary_df[i].dept
                /\ chart_df[k].month = Timestamp(2024, 3, 1)
                /\ chart_df[k].rate = IntF(90)
    /\ \E i \in 1..Len(summary_df) : summary_df[i].fy_avg_rate = NaNF

\* The key the claim gives a header: the header itself when it contains a
\* preserve keyword, else the key date_key makes of its date when it parses
\* as one, else the header itself.
HasPreserveKeyword(h) ==
    \E kw \in preserve_keywords :
        Contains(Lower(IF h.kind = "label" THEN h.text ELSE HeaderStr(h)), kw)

ParsesAsDate(h) == to_datetime(h) # 0

KeyOf(h, date_key(_)) ==
    IF HasPreserveKeyword(h) THEN h
    ELSE IF ParsesAsDate(h) THEN Period(date_key(to_datetime(h)))
    ELSE h

FirstOfMonth(ts) == YearMonth(ts) * 32 + 1

ActualLoaded ==
    /\ "actual" \in loads
    /\ actual_file.present
    /\ actual_file.readable
    /\ Lower(actual_file.extension) \in SupportedExtensions

\* Every column of the file is in the table under its key with its cells,
\* and the table has no other column.
LoadedUnder(date_key(_)) ==
    /\ actual_df.present
    /\ \A i \in 1..Len(actual_file.columns) :
          \E c \in 1..Len(actual_df.columns) :
             /\ actual_df.columns[c] = KeyOf(actual_file.columns[i], date_key)
             /\ Column(actual_df, c) = [r \in 1..Len(actual_file.rows) |-> actual_file.rows[r][i]]
    /\ \A c \in 1..Len(actual_df.columns) :
          \E i \in 1..Len(actual_file.columns) :
             /\ actual_df.columns[c] = KeyOf(actual_file.columns[i], date_key)
             /\ Column(actual_df, c) = [r \in 1..Len(actual_file.rows) |-> actual_file.rows[r][i]]

\* C18: load_data keeps a header that case-insensitively contains
\* a preserve keyword, replaces any other header that parses as a date by
\* its canonical year-month key (two headers with dates in one calendar
\* month get the same key), keeps any other header, and drops no label
\* column.
C18_DateHeadersToYearMonth ==
    ActualLoaded => LoadedUnder(FirstOfMonth)

\* A table as process_data returns it: empty, or with all its columns and
\* its months as Timestamps.
IsPipelineChart(df) == df = EmptyFrame \/ df = ChartFrame(df.rows)
IsPipelineSummary(df) == df = EmptyFrame \/ df = SummaryFrame(df.rows)

ExportCalled == export_call.outcome # "none"

\* C13: export_metrics_csv tolerates an empty input: when the
\* DepartmentSummary input or the AchievementRecord input is empty (in
\* particular when both are), it returns an empty metrics sequence and
\* does not raise.
C13_EmptyInputGivesNoMetrics ==
    (/\ ExportCalled
     /\ IsPipelineSummary(export_call.summary)
     /\ IsPipelineChart(export_call.chart)
     /\ IsEmpty(export_call.summary) \/ IsEmpty(export_call.chart)) =>
        /\ export_call.outcome = "returned"
        /\ export_call.metrics_df = <<>>

\* C14: export_metrics_csv never mutates its inputs: after any call the
\* DepartmentSummary table and the AchievementRecord table passed in are
\* unchanged (no column written, replaced or re-typed).
C14_ExportLeavesInputsUnchanged ==
    ExportCalled =>
        /\ session_state.gross_profit_summary_df = export_call.summary
        /\ session_state.gross_profit_chart_df = export_call.chart

\* C15: any unexpected exception raised while export_metrics_csv derives
\* metrics propagates to the caller; it never returns a metrics sequence
\* from which a metric group is missing because its computation failed.
C15_DerivationFailuresPropagate ==
    export_call.outcome = "returned" => ~export_call.swallowed

\* What export_metrics_csv makes of the session's tables and the values
\* the two widgets show.
CurrentExport ==
    export_metrics_csv(session_state.gross_profit_summary_df,
                       session_state.gross_profit_chart_df,
                       widget_analysis_date, widget_period_type)

\* C16: no state survives from one pipeline run to a later one: after any
\* sequence of uploads, runs, preview clicks, setting changes and CSV-export
\* clicks, the CSV offered for download (its records and its filename) is
\* derived from the tables of the most recent run and the currently
\* selected as-of date and period type, never from a table or preview
\* cached during an earlier run.
C16_DownloadFromLatestRun ==
    screen.download.present =>
        /\ session_state.gross_profit_summary_df = SummaryFrame(summary_df)
        /\ session_state.gross_profit_chart_df = ChartFrame(chart_df)
        /\ screen.download.metrics_df = CurrentExport.metrics
        /\ screen.download.filename = CurrentExport.filename

\* C17: in every run of the application, generate_html and the export
\* interface are invoked only after process_data returned a non-empty
\* DepartmentSummary and a non-empty AchievementRecord table; when either
\* is empty the run shows the processing-failed message and invokes
\* neither.
C17_RendersOnlyNonEmptyResults ==
    /\ (screen.generate_html \/ screen.export_interface) =>
          /\ outcome = "returned"
          /\ summary_df # <<>>
          /\ chart_df # <<>>
    /\ (outcome = "returned" /\ (summary_df = <<>> \/ chart_df = <<>>)) =>
          /\ screen.message = "failed"
          /\ ~screen.generate_html
          /\ ~screen.export_interface

\* A run that failed on an actual file without period columns, after a run
\* that had rendered the report: the failed message, and neither call.
C17_Witness ==
    /\ outcome = "returned"
    /\ summary_df = <<>>
    /\ screen.message = "failed"
    /\ ~screen.generate_html
    /\ ~screen.export_interface
    /\ prev.summary_df # <<>>
    /\ ~IsEmpty(session_state.gross_profit_summary_df)


\* The day k calendar months before a day.
MonthsBefore(ts, k) == (YearMonth(ts) - k) * 32 + (ts % 32)

\* The latest period of the run.
LatestMonth == MaxOf({chart_df[k].month : k \in 1..Len(chart_df)})

\* The AchievementRecords of a department with period in [from, to].
RecordsBetween(dept_name, from, to) ==
    SelectSeq(chart_df, LAMBDA r : r.dept = dept_name /\ r.month >= from /\ r.month <= to)

TrailingRecords(dept_name) ==
    RecordsBetween(dept_name, MonthsBefore(LatestMonth, 5), LatestMonth)

\* C21: for every DepartmentSummary, trailing_6mo_avg_rate is the mean of
\* achievement_rate over exactly the department's AchievementRecords with
\* period in [latest_month - 5 months, latest_month], latest_month being the
\* global latest period, and is missing when there is no such record.
C21_TrailingSixMonthAverage ==
    (Ran /\ chart_df # <<>>) =>
        \A i \in 1..Len(summary_df) :
            LET recs == TrailingRecords(summary_df[i].dept)
            IN  IF recs = <<>>
                THEN summary_df[i].six_month_avg_rate = NaNF
                ELSE /\ NotNaF(summary_df[i].six_month_avg_rate)
                     /\ FSum([k \in 1..Len(recs) |-> summary_df[i].six_month_avg_rate])
                          = FSum(Rates(recs))

\* Latest month June 2024: a department with rates 112 in January 2024 (five
\* months before) and 90 in December 2023 (six months before) whose average
\* is 112, and a department whose only record is older than the window.
C21_Witness ==
    /\ Ran /\ chart_df # <<>>
    /\ LatestMonth = Timestamp(2024, 6, 1)
    /\ \E i \in 1..Len(summary_df) :
          /\ summary_df[i].six_month_avg_rate = IntF(112)
          /\ \E k \in 1..Len(chart_df) :
                /\ chart_df[k].dept = summary_df[i].dept
                /\ chart_df[k].month = Timestamp(2023, 12, 1)
                /\ chart_df[k].rate = IntF(90)
          /\ \E k \in 1..Len(chart_df) :
                /\ chart_df[k].dept = summary_df[i].dept
                /\ chart_df[k].month = Timestamp(2024, 1, 1)
    /\ \E i \in 1..Len(summary_df) : summary_df[i].six_month_avg_rate = NaNF

\* The prior fiscal year's start the claim names for the last call.
NamedPriorFiscalStart ==
    Timestamp((IF called_today.month >= 4 THEN called_today.year
               ELSE called_today.year - 1) - 1, 4, 1)

CurrentFyActual(dept_name) == SumSeq(Actuals(FiscalRecords(dept_name)))

PriorFyActual(dept_name) ==
    SumSeq(Actuals(RecordsBetween(dept_name, NamedPriorFiscalStart,
                                  MonthsBefore(LatestMonth, 12))))

\* C22: for every DepartmentSummary, yoy_ratio_pct is current_fy_actual /
\* prior_fy_actual * 100 when prior_fy_actual > 0 and missing otherwise,
\* current_fy_actual being the sum of actual_value over the department's
\* records from the fiscal-year start on and prior_fy_actual the sum over its
\* records with period in [April 1 of the year before, latest_month - 12
\* months].
C22_YearOverYearRatio ==
    (Ran /\ chart_df # <<>>) =>
        \A i \in 1..Len(summary_df) :
            LET d == summary_df[i].dept
            IN  IF PriorFyActual(d) > 0
                THEN summary_df[i].yoy = Rat(CurrentFyActual(d) * 100, PriorFyActual(d))
                ELSE summary_df[i].yoy = NaNF

\* A call in June 2024 with latest month June 2024: a department with 112
\* in June 2024 and 90 in June 2023 has the ratio 11200/90, although it has
\* a record of January 2024 between the two windows; a department whose
\* June 2023 value is 0 has none.
C22_Witness ==
    /\ Ran /\ chart_df # <<>>
    /\ called_today = [year |-> 2024, month |-> 6]
    /\ LatestMonth = Timestamp(2024, 6, 1)
    /\ \E i \in 1..Len(summary_df) :
          /\ summary_df[i].yoy = Rat(11200, 90)
          /\ \E k \in 1..Len(chart_df) :
                /\ chart_df[k].dept = summary_df[i].dept
                /\ chart_df[k].month = Timestamp(2024, 1, 1)
    /\ \E i \in 1..Len(summary_df) :
          /\ summary_df[i].yoy = NaNF
          /\ \E k \in 1..Len(chart_df) :
                /\ chart_df[k].dept = summary_df[i].dept
                /\ chart_df[k].month = Timestamp(2023, 6, 1)
                /\ chart_df[k].actual = 0

\* The (at most) three most recent distinct periods of a table of records.
Top3Months(rows) ==
    {m \in MonthsOf(rows) : Cardinality({x \in MonthsOf(rows) : x > m}) < 3}

\* The records whose period is one of them.
RecentRecords(rows) == SelectSeq(rows, LAMBDA r : r.month \in Top3Months(rows))

MetricsNamed(name) == SelectSeq(export_call.metrics_df, LAMBDA m : m.name = name)

\* A call that returned, on a chart_df as process_data makes it.
ExportedChart ==
    /\ export_call.outcome = "returned"
    /\ IsPipelineChart(export_call.chart)
    /\ ~IsEmpty(export_call.chart)

\* C23: the coefficient-of-variation metric of export_metrics_csv is
\* computed over the AchievementRecords, of all departments, whose period is
\* one of the 3 most recent distinct periods of the table, and is skipped
\* when that set has at most 1 record.
C23_CvOverThreeDistinctPeriods ==
    ExportedChart =>
        LET recs == RecentRecords(export_call.chart.rows)
            cvs == MetricsNamed("cv_3_months")
        IN  IF Len(recs) <= 1 THEN cvs = <<>>
            ELSE /\ Len(cvs) = 1
                 /\ cvs[1].value = CvSquare(Rates(recs))

\* The records of a department in the chart_df of the last export.
ExportedRecords(dept_name) ==
    SelectSeq(export_call.chart.rows, LAMBDA r : r.dept = dept_name)

\* The 0-based index of record k among recs sorted by period.
IndexByPeriod(recs, k) == Cardinality({j \in 1..Len(recs) : recs[j].month < recs[k].month})

\* The least-squares slope of the rates of recs against that index:
\* (n Sxy - Sx Sy) / (n Sxx - Sx Sx).
RegressionSlope(recs) ==
    LET n == Len(recs)
        x(k) == IndexByPeriod(recs, k)
        Sx == SumSeq([k \in 1..n |-> x(k)])
        Sxx == SumSeq([k \in 1..n |-> x(k) * x(k)])
        Sy == FSum(Rates(recs))
        Sxy == FSum([k \in 1..n |-> FMul(IntF(x(k)), recs[k].rate)])
    IN  FDiv(FSub(FMul(IntF(n), Sxy), FMul(IntF(Sx), Sy)), IntF(n * Sxx - Sx * Sx))

\* The rate of the most recent of recs minus the mean of all of them.
LatestDeviation(recs) ==
    LET last == CHOOSE k \in 1..Len(recs) : \A j \in 1..Len(recs) : recs[j].month <= recs[k].month
    IN  FSub(recs[last].rate, FMean(Rates(recs)))

TrendMetricsOf(dept_name, name) ==
    SelectSeq(export_call.metrics_df, LAMBDA m : m.entity = dept_name /\ m.name = name)

\* C24: export_metrics_csv emits the regression-slope metric and the
\* latest-vs-mean deviation metric for a department iff the department has
\* at least 3 AchievementRecords; the slope (to 2 decimals) is taken against
\* the 0-based index of the department's records sorted by period, the
\* deviation (to 1 decimal) is the rate of its most recent record minus the
\* mean over all its records.
C24_SlopeAndDeviationFromThreeRecords ==
    ExportedChart =>
        \A d \in DeptNames :
            LET recs == ExportedRecords(d)
                slopes == TrendMetricsOf(d, "slope")
                deviations == TrendMetricsOf(d, "deviation")
            IN  IF Len(recs) >= 3
                THEN /\ Len(slopes) = 1
                     /\ slopes[1].value = Round(RegressionSlope(recs), 2)
                     /\ Len(deviations) = 1
                     /\ deviations[1].value = Round(LatestDeviation(recs), 1)
                ELSE slopes = <<>> /\ deviations = <<>>

\* Department A with rates 90, 90, 112 over three months: slope 11,
\* deviation 112 - 97.33.. = 14.7; department B with two records and no
\* trend metric.
C24_Witness ==
    /\ ExportedChart
    /\ Len(ExportedRecords(DeptA)) = 3
    /\ Len(ExportedRecords(DeptB)) = 2
    /\ \E k \in 1..Len(export_call.metrics_df) :
          export_call.metrics_df[k] =
            [export_call.metrics_df[k] EXCEPT !.entity = DeptA, !.name = "slope",
                                              !.value = IntF(11)]
    /\ \E k \in 1..Len(export_call.metrics_df) :
          export_call.metrics_df[k] =
            [export_call.metrics_df[k] EXCEPT !.entity = DeptA, !.name = "deviation",
                                              !.value = Rat(147, 10)]
    /\ TrendMetricsOf(DeptB, "slope") = <<>>

\* A call that returned, on a summary_df as process_data makes it.
ExportedSummary ==
    /\ export_call.outcome = "returned"
    /\ IsPipelineSummary(export_call.summary)
    /\ ~IsEmpty(export_call.summary)

\* The five numeric fields of a DepartmentSummary row, by metric name.
SummaryFields(row) ==
    [latest_rate |-> row.latest_rate, fy_avg_rate |-> row.fy_avg_rate,
     six_month_avg_rate |-> row.six_month_avg_rate,
     profit_share |-> row.profit_share, yoy |-> row.yoy]

\* The score the claim gives a trend label.
NamedTrendScore(label) ==
    CASE label = "improving" -> 3
      [] label = "declining" -> 1
      [] label \in {"flat", ""} -> 2

\* C25: for every DepartmentSummary row, export_metrics_csv emits one record
\* (rounded to 1 decimal) for each of latest_rate, fiscal_ytd_avg_rate,
\* trailing_6mo_avg_rate, profit_share_pct and yoy_ratio_pct that is present
\* and none for a missing one, plus exactly one trend-score record: 3 for
\* 'improving', 1 for 'declining', 2 for 'flat' or an empty label.
C25_OneRecordPerPresentField ==
    ExportedSummary =>
        \A i \in 1..Len(export_call.summary.rows) :
            LET row == export_call.summary.rows[i]
                fields == SummaryFields(row)
                scores == TrendMetricsOf(row.dept, "trend_score")
            IN  /\ \A f \in DOMAIN fields :
                     LET ms == TrendMetricsOf(row.dept, f)
                     IN  IF NotNaF(fields[f])
                         THEN Len(ms) = 1 /\ ms[1].value = Round(fields[f], 1)
                         ELSE ms = <<>>
                /\ Len(scores) = 1
                /\ scores[1].value = IntF(NamedTrendScore(row.comment))

\* A row with a year-over-year ratio (11200/90, emitted as 124.4) and the
\* label 'flat', and a row without latest rate, with an empty label and
\* the score 2.
C25_Witness ==
    /\ ExportedSummary
    /\ \E i \in 1..Len(export_call.summary.rows) :
          /\ export_call.summary.rows[i].yoy = Rat(11200, 90)
          /\ export_call.summary.rows[i].comment = "flat"
          /\ TrendMetricsOf(export_call.summary.rows[i].dept, "yoy")[1].value
                = Rat(1244, 10)
    /\ \E i \in 1..Len(export_call.summary.rows) :
          /\ export_call.summary.rows[i].latest_rate = NaNF
          /\ export_call.summary.rows[i].comment = ""
          /\ TrendMetricsOf(export_call.summary.rows[i].dept, "latest_rate") = <<>>
          /\ TrendMetricsOf(export_call.summary.rows[i].dept, "trend_score")[1].value
                = IntF(2)

\* C26: tables are immutable once produced: process_data leaves the target
\* table and the actual table it receives unchanged (no column replaced or
\* re-typed), whatever the declared type of the target-value column.
C26_ProcessDataLeavesInputsUnchanged ==
    runs >= 1 => target_df = target_loaded

\* C27: when process_data is called without `today`, the fiscal-year start
\* used for fiscal_ytd_avg_rate and yoy_ratio_pct is determined by the
\* current date at the time of that call, for every call in a long-running
\* process, not by the date at which the module was loaded: such a call
\* returns what a call with today = the current date returns.
C27_DefaultTodayIsCallDate ==
    [][ProcessDataNoToday =>
          LET now == process_data(target_df, actual_df, clock, quicksort_ties)
          IN  /\ summary_df' = now.summary_df
              /\ chart_df' = now.chart_df]_vars

\* The departments that appear in the AchievementRecords.
ChartDepts == {chart_df[k].dept : k \in 1..Len(chart_df)}

\* C28: on every return of process_data the two output tables are both
\* empty or both non-empty: a non-empty AchievementRecord table comes with
\* a DepartmentSummary of exactly one row for each distinct department of
\* the AchievementRecords and no row for any other department.
C28_OneSummaryRowPerChartDept ==
    Ran =>
        /\ (summary_df = <<>>) <=> (chart_df = <<>>)
        /\ \A d \in ChartDepts :
              Cardinality({i \in 1..Len(summary_df) : summary_df[i].dept = d}) = 1
        /\ \A i \in 1..Len(summary_df) : summary_df[i].dept \in ChartDepts

\* A return with more records than departments: two target rows of one
\* department, each with a record of February 2024.
C28_Witness ==
    /\ Ran
    /\ \E j, k \in 1..Len(chart_df) :
          /\ j # k
          /\ chart_df[j].dept = chart_df[k].dept
          /\ chart_df[j].month = chart_df[k].month
    /\ Len(summary_df) = 1

\* C29: in every DepartmentSummary returned by process_data the trend label
\* is non-empty iff latest_rate is present: a department with a record at
\* the global latest period always has a present trailing_6mo_avg_rate,
\* that record lying inside the trailing window.
C29_LabelIffLatestRate ==
    Ran =>
        \A i \in 1..Len(summary_df) :
            /\ (summary_df[i].comment # "") <=> NotNaF(summary_df[i].latest_rate)
            /\ NotNaF(summary_df[i].latest_rate)
                  => NotNaF(summary_df[i].six_month_avg_rate)

\* Latest month June 2024: a department with a rate in June and a label,
\* and a department with a record in January (inside the window, so a
\* trailing average) but none in June, and no label.
C29_Witness ==
    /\ Ran /\ chart_df # <<>>
    /\ LatestMonth = Timestamp(2024, 6, 1)
    /\ \E i \in 1..Len(summary_df) :
          /\ NotNaF(summary_df[i].latest_rate)
          /\ summary_df[i].comment = "flat"
    /\ \E i \in 1..Len(summary_df) :
          /\ ~NotNaF(summary_df[i].latest_rate)
          /\ NotNaF(summary_df[i].six_month_avg_rate)
          /\ summary_df[i].comment = ""

\* The rows of the exported DepartmentSummary whose latest_rate passes a test.
RowsWhere(test(_)) ==
    {i \in 1..Len(export_call.summary.rows) : test(export_call.summary.rows[i].latest_rate)}

BandHigh == RowsWhere(LAMBDA x : FGe(x, IntF(110)))
BandMiddle == RowsWhere(LAMBDA x : FGe(x, IntF(100)) /\ FLt(x, IntF(110)))
BandLow == RowsWhere(LAMBDA x : FLt(x, IntF(100)))

\* The value of the one aggregate metric of a name.
AggregateValue(name) == MetricsNamed(name)[1].value.n

\* C30: in the aggregate metrics for a non-empty DepartmentSummary the three
\* band counts (latest_rate >= 110, 100 <= latest_rate < 110, latest_rate <
\* 100) count pairwise disjoint sets of departments and sum to the number
\* of departments with a present latest_rate, which may be smaller than
\* the emitted department count.
C30_BandsPartitionPresentRates ==
    ExportedSummary =>
        /\ \A name \in {"dept_count", "band_110", "band_100_110", "band_under_100"} :
              Len(MetricsNamed(name)) = 1
        /\ AggregateValue("band_110") = Cardinality(BandHigh)
        /\ AggregateValue("band_100_110") = Cardinality(BandMiddle)
        /\ AggregateValue("band_under_100") = Cardinality(BandLow)
        /\ BandHigh \cap BandMiddle = {}
        /\ BandHigh \cap BandLow = {}
        /\ BandMiddle \cap BandLow = {}
        /\ AggregateValue("band_110") + AggregateValue("band_100_110")
              + AggregateValue("band_under_100")
              = Cardinality(RowsWhere(LAMBDA x : NotNaF(x)))
        /\ AggregateValue("dept_count") = Len(export_call.summary.rows)

\* Two departments, one with the latest rate 112 and one without a latest
\* rate: the bands count 1 + 0 + 0, the department count is 2.
C30_Witness ==
    /\ ExportedSummary
    /\ AggregateValue("dept_count") = 2
    /\ AggregateValue("band_110") = 1
    /\ AggregateValue("band_100_110") = 0
    /\ AggregateValue("band_under_100") = 0
====
